---- MODULE Spec2Model ----
(***************************************************************************)
(* A model of the LMS frontend (bayezsyka/lms-frontend):                   *)
(*   - the bulk student import of UserManagementPage (identifier and       *)
(*     password generation, allocation against the used NIMs/usernames),   *)
(*   - the API client (token store, apiRequest),                           *)
(*   - AuthProvider with the pages that drive it,                          *)
(*   - the views that load data in an effect guarded by a liveness flag.   *)
(* Strings that the code takes apart (names, NIMs, passwords) are          *)
(* sequences of one-character strings.  Each part of the program has its   *)
(* own specification (SpecBulk, SpecApi, SpecAuth, SpecView) over the      *)
(* variables of that part; the other variables stay at their initial       *)
(* value.                                                                  *)
(***************************************************************************)
EXTENDS Integers, Sequences, FiniteSets, TLC

VARIABLES
    \* ---- UserManagementPage (bulk import) ----
    users,          \* useState<User[]>: the loaded users (a set of records)
    usersLoading,   \* useState<boolean>(true): `loading` of the page
    bulkRows,       \* useState<BulkStudentRow[]>: the preview rows
    bulkError,      \* useState<string | null>
    reader,         \* the FileReader reads in progress (at most one record)
    upNames,        \* history: the names read from the last uploaded file
    upDate,         \* history: `now` of the last upload
    upUsers,        \* history: `users` when the last upload ran
    upStart,        \* history: baseOrder as line 526 set it
    \* ---- apiClient ----
    authToken,      \* module variable authToken
    localStore,     \* window.localStorage[LOCAL_STORAGE_KEY]
    apiPc,          \* position of the one apiRequest call under study
    apiOpts,        \* its options
    apiSent,        \* what it handed to fetch
    apiResp,        \* the response fetch gave
    apiOut,         \* how the promise settled
    apiFetches,     \* history: calls of fetch made by this apiRequest call
    \* ---- AuthProvider and its pages ----
    user, token, loading, initialized,
    started,        \* whether the mount effect (initAuth) has run
    page,           \* the page shown
    submitting,     \* ChangePasswordPage.submitting
    inflight,       \* the requests in flight, oldest first
    lastOp,         \* history: the last step taken
    gave,           \* history: what that step gave the caller of login, logout
                    \* or refreshUser: "resolved", "Error", "rejected", "none"
    \* ---- views with a liveness flag ----
    vPage,          \* which view is mounted
    vMounted,       \* whether it is still mounted
    vDep,           \* the effect's dependency (statusFilter / id)
    vRun,           \* number of effect runs so far
    vActive,        \* the isActive flag of each run
    vPending,       \* requests outstanding: records [run, slot, dep]
    vData, vError, vLoading,   \* per slot: data, error, loading state
    vCourse,        \* CourseDetailPage.course
    vLast,          \* history: the last step taken
    \* ---- single calls of functions under study ----
    urlIn,          \* apiRequest: the path and query of a call
    urlOut,         \* apiRequest: the URL it built
    genIn,          \* generateNimAndPassword: the arguments of a call
    genOut,         \* generateNimAndPassword: what it returned
    \* ---- UserManagementPage: Generate in the bulk modal ----
    bulkGenerating,     \* React state bulkGenerating
    bulkGeneratedRows,  \* React state bulkGeneratedRows
    genPc,          \* handleGenerateBulk: "idle", "posting" (a create request
                    \* is awaited), "loading" (loadUsers is awaited)
    genRows,        \* the bulkRows the running or last call closed over
    genNext,        \* the index in genRows of the row whose request is awaited
    genSent,        \* history: the payloads the running or last call posted
    genCalled,      \* history: handleGenerateBulk ran since the last upload step
    \* ---- history of the token store ----
    tokLast,        \* the last of setAuthToken / clearAuthToken, with its token
    \* ---- TeacherMyCoursesPage: the status button ----
    tCourses,       \* React state courses: the status of each course by id
    tUpdatingId,    \* React state updatingId (0 for null)
    tError,         \* React state error
    tFlights,       \* the status requests in flight, in the order sent
    tLast,          \* history: the last step of the page, with the course
    \* ---- TeacherQuizDetailPage: the question editor ----
    quizId,         \* the id of the route ("" if it has none)
    quiz,           \* React state quiz
    qzLoading,      \* React state loading of the page
    qzError,        \* React state error of the page
    questionsDraft, \* React state questionsDraft
    editingQuestions, savingQuestions, questionMessage,
    putFlight,      \* the PUT in flight: the questions it carries
    qzEdits,        \* number of inputs made in the editor
    qzLast,         \* history: the last step of the page
    \* ---- UserManagementPage: the calls of loadUsers ----
    roleFilter,     \* React state roleFilter
    refreshing,     \* React state refreshing
    usersError,     \* React state error
    formSubmitting, \* React state formSubmitting
    formFilter,     \* roleFilter of the render whose form was submitted
    luFlights,      \* the calls of loadUsers awaiting their answer
    luIssued,       \* number of calls of loadUsers so far
    luLatest        \* history: the last call made, and how it ended

genVars  == <<bulkGenerating, bulkGeneratedRows, genPc, genRows, genNext,
              genSent, genCalled>>
bulkVars == <<users, usersLoading, bulkRows, bulkError, reader, upNames, upDate,
              upUsers, upStart, genVars>>
apiVars  == <<apiPc, apiOpts, apiSent, apiResp, apiOut, apiFetches>>
tokVars  == <<authToken, localStore>>
authVars == <<user, token, loading, initialized, started, page, submitting,
              inflight, lastOp, gave>>
viewVars == <<vPage, vMounted, vDep, vRun, vActive, vPending, vData, vError,
              vLoading, vCourse, vLast>>
callVars == <<urlIn, urlOut, genIn, genOut>>
toggleVars == <<tCourses, tUpdatingId, tError, tFlights, tLast>>
quizVars == <<quizId, quiz, qzLoading, qzError, questionsDraft,
              editingQuestions, savingQuestions, questionMessage, putFlight,
              qzEdits, qzLast>>
loadVars == <<roleFilter, refreshing, usersError, formSubmitting, formFilter,
              luFlights, luIssued, luLatest>>
pageVars == <<toggleVars, quizVars, loadVars>>
vars == <<bulkVars, apiVars, tokVars, authVars, viewVars, callVars, tokLast,
          pageVars>>

Null == "null"          \* JavaScript null / undefined, where the value is opaque
\* null where the value is a string taken apart as a sequence of characters:
\* no string is a sequence holding this element
NullS == <<"null">>

(***************************************************************************)
(* Strings                                                                 *)
(***************************************************************************)
DigitChars == <<"0", "1", "2", "3", "4", "5", "6", "7", "8", "9">>

IsDigit(c) == \E i \in 1..10 : DigitChars[i] = c

DigitVal(c) == (CHOOSE i \in 1..10 : DigitChars[i] = c) - 1

\* /\s/ : the whitespace characters of the alphabet used here
IsSpace(c) == c \in {" ", "\t"}

\* String.prototype.toLowerCase on one character
ToLowerChar(c) ==
    CASE c = "A" -> "a" [] c = "B" -> "b" [] c = "D" -> "d" [] c = "I" -> "i"
      [] c = "L" -> "l" [] c = "N" -> "n" [] c = "S" -> "s" [] c = "U" -> "u"
      [] OTHER -> c

ToLowerCase(s) == [i \in 1..Len(s) |-> ToLowerChar(s[i])]

RECURSIVE NumToStr(_)
\* String(n) for an integer n >= 0
NumToStr(n) ==
    IF n < 10 THEN <<DigitChars[n + 1]>>
    ELSE NumToStr(n \div 10) \o <<DigitChars[(n % 10) + 1]>>

RECURSIVE PadStart(_, _, _)
\* String.prototype.padStart(len, c): pads, never cuts
PadStart(s, len, c) ==
    IF Len(s) >= len THEN s ELSE PadStart(<<c>> \o s, len, c)

RECURSIVE TrimStart(_)
TrimStart(s) ==
    IF s # <<>> /\ IsSpace(Head(s)) THEN TrimStart(Tail(s)) ELSE s

RECURSIVE TrimEnd(_)
TrimEnd(s) ==
    IF s # <<>> /\ IsSpace(s[Len(s)]) THEN TrimEnd(SubSeq(s, 1, Len(s) - 1))
    ELSE s

\* String.prototype.trim
Trim(s) == TrimEnd(TrimStart(s))

\* s.replace(/\s+/g, "")
RemoveSpaces(s) == SelectSeq(s, LAMBDA c : ~IsSpace(c))

\* s.slice(0, n)
SliceTo(s, n) == SubSeq(s, 1, IF Len(s) < n THEN Len(s) ELSE n)

\* s.slice(n)
SliceFrom(s, n) == SubSeq(s, n + 1, Len(s))

StartsWith(s, p) == Len(s) >= Len(p) /\ SubSeq(s, 1, Len(p)) = p

RECURSIVE DigitsValue(_, _)
\* value of the longest run of digits at the head of s, acc the value so far
DigitsValue(s, acc) ==
    IF s # <<>> /\ IsDigit(Head(s))
    THEN DigitsValue(Tail(s), acc * 10 + DigitVal(Head(s)))
    ELSE acc

\* Number.parseInt(s, 10): leading whitespace skipped, an optional sign, then
\* the longest run of digits; NaN (isNaN) when there is no digit there.
ParseInt(s) ==
    LET t    == TrimStart(s)
        neg  == t # <<>> /\ Head(t) = "-"
        sign == t # <<>> /\ Head(t) \in {"-", "+"}
        d    == IF sign THEN Tail(t) ELSE t
    IN  IF d = <<>> \/ ~IsDigit(Head(d)) THEN [isNaN |-> TRUE, n |-> 0]
        ELSE [isNaN |-> FALSE,
              n |-> IF neg THEN 0 - DigitsValue(d, 0) ELSE DigitsValue(d, 0)]

(***************************************************************************)
(* UserManagementPage: identifier / password generator                     *)
(***************************************************************************)
\* the YYYYMMDD prefix both functions build from a Date; date.month is what
\* getMonth() returns (0 = January). First the prefix with getMonth() taken
\* as it is, then the one of the code.
DatePrefixRawMonth(date) ==
    NumToStr(date.year)
        \o PadStart(NumToStr(date.month), 2, "0")
        \o PadStart(NumToStr(date.day), 2, "0")

DatePrefix(date) ==
    NumToStr(date.year)
        \o PadStart(NumToStr(date.month + 1), 2, "0")
        \o PadStart(NumToStr(date.day), 2, "0")

\* order padded as a plausible slip would: cut to the last 3 digits
OrderStrCut(order) ==
    LET s == PadStart(NumToStr(order), 3, "0") IN SubSeq(s, Len(s) - 2, Len(s))

OrderStr(order) == PadStart(NumToStr(order), 3, "0")

\* the cleaned name cut to 6 characters instead of 7
NormalizedNameShort(name) == SliceTo(ToLowerCase(RemoveSpaces(name)), 6)

NormalizedName(name) == SliceTo(ToLowerCase(RemoveSpaces(name)), 7)

generateNimAndPassword(name, order, date) ==
    LET nim == DatePrefix(date) \o OrderStr(order)
    IN  [nim |-> nim,
         password |-> NormalizedName(name) \o OrderStr(order),
         username |-> nim]

\* the role test dropped: every user with a NIM counts
CountsForOrderAnyRole(u) == u.nim # NullS /\ u.nim # <<>>

\* line 117: only students with a NIM are looked at
CountsForOrder(u) == u.role = "mahasiswa" /\ u.nim # NullS /\ u.nim # <<>>

\* the body of the forEach callback: the new maxOrder after user u
OrderStep(u, prefix, maxOrder) ==
    IF ~CountsForOrder(u) THEN maxOrder
    ELSE LET nim == Trim(u.nim) IN
         IF ~StartsWith(nim, prefix) THEN maxOrder
         ELSE LET suffix == SliceFrom(nim, Len(prefix)) IN
              IF Len(suffix) = 0 THEN maxOrder
              ELSE LET n == ParseInt(suffix) IN
                   IF ~n.isNaN /\ n.n > maxOrder THEN n.n ELSE maxOrder

RECURSIVE MaxOrderOver(_, _, _)
MaxOrderOver(us, prefix, maxOrder) ==
    IF us = {} THEN maxOrder
    ELSE LET u == CHOOSE x \in us : TRUE
         IN  MaxOrderOver(us \ {u}, prefix, OrderStep(u, prefix, maxOrder))

getNextOrderForToday(us, date) == MaxOrderOver(us, DatePrefix(date), 0) + 1

(***************************************************************************)
(* UserManagementPage: bulk import                                         *)
(***************************************************************************)
\* lines 488-503: the used sets are the trimmed usernames / NIMs of `users`
ExistingUsernames(us) ==
    {Trim(u.username) : u \in {x \in us : x.username # NullS /\ x.username # <<>>}}

ExistingNims(us) ==
    {Trim(u.nim) : u \in {x \in us : x.nim # NullS /\ x.nim # <<>>}}

\* the collision test with the username set forgotten
IsUsedNimOnly(g, usedNims, usedUsernames) == g.nim \in usedNims

\* lines 554-559: the candidate is taken unless its NIM or username is used
IsUsed(g, usedNims, usedUsernames) ==
    g.nim \in usedNims \/ g.username \in usedUsernames

\* the first candidate taken without the collision test
FindOrderNoRetry(rawName, candidateOrder, now, usedNims, usedUsernames) ==
    candidateOrder

RECURSIVE FindOrder(_, _, _, _, _)
\* lines 544-562: the while (true) loop; the order it leaves in candidateOrder
FindOrder(rawName, candidateOrder, now, usedNims, usedUsernames) ==
    IF IsUsed(generateNimAndPassword(rawName, candidateOrder, now),
              usedNims, usedUsernames)
    THEN FindOrder(rawName, candidateOrder + 1, now, usedNims, usedUsernames)
    ELSE candidateOrder

\* line 577
NextBase(candidateOrder) == candidateOrder + 1

\* a loop that skips no name
IsBlankNever(rawName) == FALSE

\* line 530: if (!rawName) return, on the trimmed name
IsBlank(rawName) == rawName = <<>>

RECURSIVE AllocLoop(_, _, _, _, _, _)
\* lines 529-578: json.forEach over the names still to do; st is the loop's
\* state [baseOrder, rows, usedNims, usedUsernames]
AllocLoop(names, now, baseOrder, rows, usedNims, usedUsernames) ==
    IF names = <<>>
    THEN [baseOrder |-> baseOrder, rows |-> rows,
          usedNims |-> usedNims, usedUsernames |-> usedUsernames]
    ELSE LET rawName == Trim(Head(names)) IN
         IF IsBlank(rawName)
         THEN AllocLoop(Tail(names), now, baseOrder, rows, usedNims,
                        usedUsernames)
         ELSE LET candidateOrder ==
                      FindOrder(rawName, baseOrder, now, usedNims,
                                usedUsernames)
                  g == generateNimAndPassword(rawName, candidateOrder, now)
                  row == [order |-> candidateOrder, name |-> rawName,
                          nim |-> g.nim, username |-> g.username,
                          password |-> g.password]
              IN  AllocLoop(Tail(names), now, NextBase(candidateOrder),
                            Append(rows, row), usedNims \cup {g.nim},
                            usedUsernames \cup {g.username})

\* lines 525-578: the rows reader.onload builds from the names of the file
\* and the users captured when the file was chosen
AllocateRows(names, us, now) ==
    AllocLoop(names, now, getNextOrderForToday(us, now), <<>>,
              ExistingNims(us), ExistingUsernames(us)).rows

\* ---- the inputs the bulk import is explored with ----
MaxUsers == 2           \* at most this many users are loaded
MaxNames == 2           \* at most this many rows in an uploaded file

P0307 == <<"2", "0", "2", "5", "0", "3", "0", "7">>
P0101 == <<"2", "0", "2", "5", "0", "1", "0", "1">>

Student(nim) == [role |-> "mahasiswa", nim |-> nim, username |-> nim]

UserPool ==
    { Student(P0307 \o <<"0", "0", "1">>),
      Student(P0307 \o <<"0", "0", "2">>),
      Student(P0101 \o <<"9", "9", "9">>),
      Student(P0307 \o <<"9", "9", "9">>),
      \* a lecturer whose NIM looks like today's
      [role |-> "dosen", nim |-> P0307 \o <<"0", "0", "5">>,
       username |-> <<"b", "u", "d", "i">>],
      \* a lecturer without NIM whose username looks like a NIM of today
      [role |-> "dosen", nim |-> NullS,
       username |-> P0307 \o <<"0", "0", "3">>],
      \* a NIM stored with blanks around it
      [role |-> "mahasiswa", nim |-> <<" ">> \o P0307 \o <<"0", "0", "4", " ">>,
       username |-> <<"a", "l">>],
      \* a NIM of today whose suffix is no number
      [role |-> "mahasiswa", nim |-> P0307 \o <<"x">>,
       username |-> <<"x">>] }

UserLists == {us \in SUBSET UserPool : Cardinality(us) <= MaxUsers}

NamePool ==
    { <<"U", "d", "i", "n", " ", "S", "a", "p", "u", "t", "r", "a">>,
      <<"U", "d", "i", "n">>,
      <<" ", "A", "l", "\t">>,
      <<" ", " ">> }

RECURSIVE SeqsUpTo(_, _)
\* the sequences over S of length at most n
SeqsUpTo(S, n) ==
    IF n = 0 THEN {<<>>}
    ELSE LET shorter == SeqsUpTo(S, n - 1)
         IN  shorter \cup {Append(q, x) : q \in shorter, x \in S}

NameLists == SeqsUpTo(NamePool, MaxNames)

\* new Date(): [year, month (getMonth(), 0 = January), day (getDate())]
Dates == { [year |-> 2025, month |-> 2, day |-> 7],
           [year |-> 2024, month |-> 11, day |-> 31] }

NoDate == [year |-> 0, month |-> 0, day |-> 0]

InitBulk ==
    /\ users = {}
    /\ usersLoading = TRUE
    /\ bulkRows = <<>>
    /\ bulkError = Null
    /\ reader = {}
    /\ upNames = <<>>
    /\ upDate = NoDate
    /\ upUsers = {}
    /\ upStart = 0
    /\ bulkGenerating = FALSE
    /\ bulkGeneratedRows = <<>>
    /\ genPc = "idle"
    /\ genRows = <<>>
    /\ genNext = 0
    /\ genSent = <<>>
    /\ genCalled = FALSE

notBulk ==
    <<apiVars, tokVars, authVars, viewVars, callVars, tokLast, pageVars>>

\* lines 651-653: when the loadUsers that settles is the one handleGenerateBulk
\* awaits, its finally block follows
GenerateFinally ==
    IF genPc = "loading"
    THEN /\ bulkGenerating' = FALSE
         /\ genPc' = "idle"
    ELSE UNCHANGED <<bulkGenerating, genPc>>

\* lines 175-211: loadUsers answers with a list (which may be empty)
LoadUsersOk(list) ==
    /\ usersLoading
    /\ users' = list
    /\ usersLoading' = FALSE
    /\ GenerateFinally
    /\ UNCHANGED <<bulkRows, bulkError, reader, upNames, upDate, upUsers,
                   upStart, bulkGeneratedRows, genRows, genNext, genSent,
                   genCalled>>
    /\ UNCHANGED notBulk

\* lines 197-205: the request of loadUsers fails; loadUsers catches the error
\* and keeps the list it had
LoadUsersFail ==
    /\ usersLoading
    /\ usersLoading' = FALSE
    /\ GenerateFinally
    /\ UNCHANGED <<users, bulkRows, bulkError, reader, upNames, upDate, upUsers,
                   upStart, bulkGeneratedRows, genRows, genNext, genSent,
                   genCalled>>
    /\ UNCHANGED notBulk

\* lines 478-504, 595: a file is chosen.  The handler resets the preview and
\* starts a FileReader whose onload closes over the `users` of this render.
\* The import is used once the users are loaded, one file at a time.
HandleUploadTemplate(names) ==
    /\ ~usersLoading /\ reader = {}
    /\ bulkError' = Null
    /\ bulkRows' = <<>>
    /\ reader' = {[names |-> names, users |-> users]}
    /\ upNames' = <<>> /\ upDate' = NoDate /\ upUsers' = {} /\ upStart' = 0
    /\ bulkGeneratedRows' = <<>>
    /\ genCalled' = FALSE
    /\ UNCHANGED <<users, usersLoading, bulkGenerating, genPc, genRows, genNext,
                   genSent>>
    /\ UNCHANGED notBulk

\* line 485: no file was chosen: only the resets happen
HandleUploadNoFile ==
    /\ ~usersLoading /\ reader = {}
    /\ bulkError' = Null
    /\ bulkRows' = <<>>
    /\ upNames' = <<>> /\ upDate' = NoDate /\ upUsers' = {} /\ upStart' = 0
    /\ bulkGeneratedRows' = <<>>
    /\ genCalled' = FALSE
    /\ UNCHANGED <<users, usersLoading, reader, bulkGenerating, genPc, genRows,
                   genNext, genSent>>
    /\ UNCHANGED notBulk

\* lines 506-593: reader.onload with the file's data
ReaderOnload(now) ==
    \E r \in reader :
        LET rows == AllocateRows(r.names, r.users, now) IN
        /\ reader' = {}
        /\ IF rows = <<>>
           THEN /\ bulkError' = "Tidak ada nama mahasiswa yang terbaca di file."
                /\ UNCHANGED bulkRows
           ELSE /\ bulkRows' = rows
                /\ UNCHANGED bulkError
        /\ upNames' = r.names
        /\ upDate' = now
        /\ upUsers' = r.users
        /\ upStart' = getNextOrderForToday(r.users, now)
        /\ genCalled' = FALSE
        /\ UNCHANGED <<users, usersLoading, bulkGenerating, bulkGeneratedRows,
                       genPc, genRows, genNext, genSent>>
        /\ UNCHANGED notBulk

\* lines 507-511, 586-592: the file could not be read or parsed
ReaderOnloadFail ==
    /\ reader # {}
    /\ reader' = {}
    /\ bulkError' = "Gagal membaca file."
    /\ genCalled' = FALSE
    /\ UNCHANGED <<users, usersLoading, bulkRows, upNames, upDate, upUsers,
                   upStart, bulkGenerating, bulkGeneratedRows, genPc, genRows,
                   genNext, genSent>>
    /\ UNCHANGED notBulk

(***************************************************************************)
(* UserManagementPage: handleBulkRowChange and handleGenerateBulk          *)
(***************************************************************************)
\* what is typed into a field of a preview row: the name is emptied, the
\* password is replaced
RowEdits ==
    { [field |-> "name", value |-> <<>>],
      [field |-> "password", value |-> <<"p", "w">>] }

\* lines 603-607: the rows with the field of the row numbered order replaced
EditedRows(rows, order, e) ==
    [i \in DOMAIN rows |->
        IF rows[i].order = order
        THEN IF e.field = "name" THEN [rows[i] EXCEPT !.name = e.value]
             ELSE [rows[i] EXCEPT !.password = e.value]
        ELSE rows[i]]

\* lines 598-609, 1321-1366: a field of a preview row is edited; the inputs
\* are disabled while bulkGenerating
HandleBulkRowChange(order, e) ==
    /\ ~bulkGenerating
    /\ \E i \in DOMAIN bulkRows : bulkRows[i].order = order
    /\ bulkRows' = EditedRows(bulkRows, order, e)
    /\ bulkGeneratedRows' = <<>>
    /\ UNCHANGED <<users, usersLoading, bulkError, reader, upNames, upDate,
                   upUsers, upStart, bulkGenerating, genPc, genRows, genNext,
                   genSent, genCalled>>
    /\ UNCHANGED notBulk

\* a handler that takes any preview, the empty one included
BatchIsEmptyNever(rows) == FALSE

\* line 612: bulkRows.length === 0
BatchIsEmpty(rows) == Len(rows) = 0

\* line 622: a row is posted unless its name, NIM or username is blank
Submittable(row) ==
    /\ Trim(row.name) # <<>>
    /\ Trim(row.nim) # <<>>
    /\ Trim(row.username) # <<>>

\* lines 621-625: the first row from index from on that is posted, 0 if none
NextRow(rows, from) ==
    LET S == {i \in from..Len(rows) : Submittable(rows[i])}
    IN  IF S = {} THEN 0 ELSE CHOOSE i \in S : \A j \in S : i <= j

\* lines 626-635: the body of the create request of a row
Payload(row) ==
    [name |-> Trim(row.name), email |-> NullS, username |-> Trim(row.username),
     nim |-> Trim(row.nim), role |-> "mahasiswa", status |-> "active",
     force_password_change |-> TRUE, password |-> row.password]

\* what a rejected create request throws: an Error with a message, which may
\* be empty, or something that is no Error
CreateFailures ==
    { [isError |-> TRUE, message |-> "The nim has already been taken."],
      [isError |-> TRUE, message |-> ""],
      [isError |-> FALSE, message |-> ""] }

\* lines 644-650: the text shown for a failure
FailureText(e) ==
    IF e.isError
    THEN IF e.message # "" THEN e.message
         ELSE "Gagal generate data mahasiswa."
    ELSE "Terjadi kesalahan saat generate data mahasiswa."

\* lines 621-642: the loop from row index from on, up to its next await: the
\* request of the next row that is posted, or, the rows being done,
\* setBulkGeneratedRows and loadUsers; shown is bulkGeneratedRows until then
GenContinue(rows, from, sent, shown) ==
    LET k == NextRow(rows, from) IN
    IF k # 0
    THEN /\ genPc' = "posting"
         /\ genNext' = k
         /\ genSent' = Append(sent, Payload(rows[k]))
         /\ bulkGeneratedRows' = shown
         /\ UNCHANGED usersLoading
    ELSE /\ genPc' = "loading"
         /\ genNext' = 0
         /\ genSent' = sent
         /\ bulkGeneratedRows' = rows
         /\ usersLoading' = TRUE

\* lines 611-639: Generate is invoked while no earlier call is running
HandleGenerateBulk ==
    /\ genPc = "idle"
    /\ genCalled' = TRUE
    /\ genRows' = bulkRows
    /\ IF BatchIsEmpty(bulkRows)
       THEN /\ bulkError' = "Belum ada data mahasiswa untuk digenerate."
            /\ genSent' = <<>>
            /\ UNCHANGED <<bulkGenerating, bulkGeneratedRows, genPc, genNext,
                           usersLoading>>
       ELSE /\ bulkGenerating' = TRUE
            /\ bulkError' = Null
            /\ GenContinue(bulkRows, 1, <<>>, <<>>)
    /\ UNCHANGED <<users, bulkRows, reader, upNames, upDate, upUsers, upStart>>
    /\ UNCHANGED notBulk

\* lines 637-642: the awaited create request succeeded
GenPostOk ==
    /\ genPc = "posting"
    /\ GenContinue(genRows, genNext + 1, genSent, bulkGeneratedRows)
    /\ UNCHANGED <<users, bulkRows, bulkError, reader, upNames, upDate, upUsers,
                   upStart, bulkGenerating, genRows, genCalled>>
    /\ UNCHANGED notBulk

\* a loop that notes the failure and goes on with the next row
GenPostFailGoesOn(e) ==
    /\ genPc = "posting"
    /\ bulkError' = FailureText(e)
    /\ GenContinue(genRows, genNext + 1, genSent, bulkGeneratedRows)
    /\ UNCHANGED <<users, bulkRows, reader, upNames, upDate, upUsers, upStart,
                   bulkGenerating, genRows, genCalled>>
    /\ UNCHANGED notBulk

\* lines 643-653: the awaited create request failed: the loop ends there
GenPostFail(e) ==
    /\ genPc = "posting"
    /\ genPc' = "idle"
    /\ genNext' = 0
    /\ bulkError' = FailureText(e)
    /\ bulkGenerating' = FALSE
    /\ UNCHANGED <<users, usersLoading, bulkRows, reader, upNames, upDate,
                   upUsers, upStart, bulkGeneratedRows, genRows, genSent,
                   genCalled>>
    /\ UNCHANGED notBulk

(***************************************************************************)
(* apiClient: the token store                                              *)
(***************************************************************************)
\* a string is truthy unless it is empty; null and undefined are falsy
Truthy(v) == v # Null /\ v # ""

\* a ?? b
Coalesce(a, b) == IF a # Null THEN a ELSE b

\* getAuthToken's result: the module variable if set, else the stored value
getAuthToken(mem, store) ==
    IF Truthy(mem) THEN mem ELSE IF Truthy(store) THEN store ELSE Null

\* the module variable after getAuthToken: a stored value found is kept in it
MemAfterGet(mem, store) ==
    IF Truthy(mem) THEN mem ELSE IF Truthy(store) THEN store ELSE mem

\* getAuthToken as a step on the store
GetAuthTokenStep ==
    /\ authToken' = MemAfterGet(authToken, localStore)
    /\ UNCHANGED localStore

setAuthToken(t) ==
    /\ authToken' = t
    /\ localStore' = t

\* clearAuthToken that forgets the persisted copy
clearAuthTokenMemOnly ==
    /\ authToken' = Null
    /\ UNCHANGED localStore

clearAuthToken ==
    /\ authToken' = Null
    /\ localStore' = Null

(***************************************************************************)
(* apiClient: apiRequest                                                   *)
(***************************************************************************)
Tokens == {"tokA", "tokB"}

\* the strings setAuthToken(token: string) can be given: res.token is stored
\* as the server sent it, the empty string included
TokenStrings == Tokens \cup {""}

\* a caller header that is not given
NoHeader == Null

ApiOptions ==
    [ method        : {"GET", "POST"},
      body          : {Null, "json", "form"},      \* undefined, a value, FormData
      hAuth         : {NoHeader, "Bearer caller"}, \* headers.Authorization
      hCT           : {NoHeader, "text/plain"},    \* headers["Content-Type"]
      withAuth      : BOOLEAN,
      tokenOverride : {Null, "", "tokO"} ]

\* the override ignored: always the stored token
ResolveTokenStoredOnly(o, mem, store) == getAuthToken(mem, store)

\* line 232: tokenOverride ?? getAuthToken()
ResolveToken(o, mem, store) ==
    Coalesce(o.tokenOverride, getAuthToken(mem, store))

\* the header kept when the caller gave one
AuthorizationHeaderKeepCaller(o, mem, store) ==
    LET t == ResolveToken(o, mem, store) IN
    IF o.withAuth /\ Truthy(t) /\ o.hAuth = NoHeader THEN "Bearer " \o t
    ELSE o.hAuth

\* lines 213-216, 230-236: the Authorization header of the request
AuthorizationHeader(o, mem, store) ==
    LET t == ResolveToken(o, mem, store) IN
    IF o.withAuth /\ Truthy(t) THEN "Bearer " \o t ELSE o.hAuth

\* application/json forced on every JSON body, whatever the caller gave
ContentTypeHeaderForced(o) ==
    IF o.body \notin {Null, "form"} THEN "application/json" ELSE o.hCT

\* lines 218-228: the Content-Type header of the request
ContentTypeHeader(o) ==
    IF o.body \notin {Null, "form"} THEN Coalesce(o.hCT, "application/json")
    ELSE o.hCT

\* the body handed on whatever the method
RequestBodyAnyMethod(o) ==
    IF o.body = "json" THEN "JSON.stringify(body)"
    ELSE IF o.body = "form" THEN "form"
    ELSE Null

\* lines 218-228, 242: the body handed to fetch
RequestBody(o) ==
    IF o.method = "GET" THEN Null
    ELSE IF o.body = "json" THEN "JSON.stringify(body)"
    ELSE IF o.body = "form" THEN "form"
    ELSE Null

\* lines 213-245: what apiRequest hands to fetch
BuildRequest(o, mem, store) ==
    [ method |-> o.method,
      accept |-> "application/json",
      authorization |-> AuthorizationHeader(o, mem, store),
      contentType |-> ContentTypeHeader(o),
      body |-> RequestBody(o) ]

\* ---- responses ----
Statuses == {199, 200, 204, 299, 300, 401, 500}

ContentTypes == {"application/json", "application/json; charset=utf-8",
                 "text/html", Null}

\* a parsed JSON value, as far as apiRequest looks at it
JsonNull == [kind |-> "null", message |-> Null, error |-> Null]

JsonValues ==
    [kind : {"object"}, message : {Null, "", "Unauthorized"},
                        error : {Null, "", "Invalid"}]
      \cup {JsonNull,
            [kind |-> "string", message |-> Null, error |-> Null],
            [kind |-> "array", message |-> Null, error |-> Null]}

\* the body of a response: a JSON text (its value) or text that does not parse
Malformed == [kind |-> "malformed", message |-> Null, error |-> Null]

Responses ==
    [status : Statuses, contentType : ContentTypes,
     body : JsonValues \cup {Malformed}]

NoResponse == [status |-> 0, contentType |-> Null, body |-> JsonNull]

\* line 248: contentType.includes("application/json")
IsJson(r) ==
    Coalesce(r.contentType, "")
        \in {"application/json", "application/json; charset=utf-8"}

\* the body handed on as it came, parsed or not
ResponseDataRaw(r) == r.body

\* lines 249-251: response.json().catch(() => null), or null
ResponseData(r) ==
    IF IsJson(r) THEN (IF r.body = Malformed THEN JsonNull ELSE r.body)
    ELSE JsonNull

\* success taken to be any status below 400
ResponseOkBelow400(r) == r.status >= 200 /\ r.status <= 399

\* response.ok
ResponseOk(r) == r.status >= 200 /\ r.status <= 299

GenericMessage(r) == "Request failed with status " \o ToString(r.status)

\* lines 254-261: the message of the error
ErrorMessage(r) ==
    LET d == ResponseData(r) IN
    IF IsJson(r) /\ d.kind \in {"object", "array"}
         /\ (Truthy(d.message) \/ Truthy(d.error))
    THEN Coalesce(d.message, Coalesce(d.error, GenericMessage(r)))
    ELSE GenericMessage(r)

NoOutcome == [kind |-> "pending", message |-> Null, status |-> 0,
              data |-> JsonNull]

\* lines 253-269: how the promise settles on a response
Settle(r) ==
    IF ~ResponseOk(r)
    THEN [kind |-> "rejected", message |-> ErrorMessage(r),
          status |-> r.status, data |-> ResponseData(r)]
    ELSE [kind |-> "resolved", message |-> Null, status |-> r.status,
          data |-> ResponseData(r)]

\* the error fetch raises when the transport fails (a TypeError): it has no
\* status and no data
FetchError == [kind |-> "rejected", message |-> "Failed to fetch",
               status |-> 0, data |-> JsonNull]

\* a failed request sent once more
FetchesAfterRetry(out) == IF out.kind = "rejected" THEN 1 ELSE 0

\* lines 238-269: fetch is called once, outside any loop; whatever the
\* outcome, the code after it calls fetch no more
FetchesAfter(out) == 0

NoOptions == [method |-> "GET", body |-> Null, hAuth |-> NoHeader,
              hCT |-> NoHeader, withAuth |-> TRUE, tokenOverride |-> Null]

NoRequest == [method |-> Null, accept |-> Null, authorization |-> Null,
              contentType |-> Null, body |-> Null]

InitTok ==
    /\ authToken = Null
    /\ localStore = Null

notApi ==
    <<bulkVars, authVars, viewVars, callVars, pageVars>>

\* neither setAuthToken nor clearAuthToken has been called
NoTokenOp == [op |-> "none", tok |-> Null]

InitApi ==
    /\ apiPc = "idle"
    /\ apiOpts = NoOptions
    /\ apiSent = NoRequest
    /\ apiResp = NoResponse
    /\ apiOut = NoOutcome
    /\ apiFetches = 0
    /\ tokLast = NoTokenOp

\* a login elsewhere stored a token
ApiSetToken(t) ==
    /\ apiPc = "idle"
    /\ setAuthToken(t)
    /\ tokLast' = [op |-> "set", tok |-> t]
    /\ UNCHANGED apiVars
    /\ UNCHANGED notApi

ApiClearToken ==
    /\ apiPc = "idle"
    /\ clearAuthToken
    /\ tokLast' = [op |-> "clear", tok |-> Null]
    /\ UNCHANGED apiVars
    /\ UNCHANGED notApi

\* the page is loaded anew: the module variable starts as null, the storage
\* of the browser is kept
ApiReload ==
    /\ apiPc = "idle"
    /\ authToken' = Null
    /\ UNCHANGED <<localStore, apiVars, tokLast>>
    /\ UNCHANGED notApi

\* lines 181-245: apiRequest up to the call of fetch
ApiRequestSend(o) ==
    /\ apiPc = "idle"
    /\ apiPc' = "sent"
    /\ apiOpts' = o
    /\ apiSent' = BuildRequest(o, authToken, localStore)
    /\ apiResp' = NoResponse
    /\ apiOut' = NoOutcome
    /\ apiFetches' = 1
    /\ IF o.withAuth /\ o.tokenOverride = Null
       THEN GetAuthTokenStep
       ELSE UNCHANGED tokVars
    /\ UNCHANGED tokLast
    /\ UNCHANGED notApi

\* lines 247-270: fetch gave a response
ApiRespond(r) ==
    /\ apiPc = "sent"
    /\ apiPc' = "done"
    /\ apiResp' = r
    /\ apiOut' = Settle(r)
    /\ apiFetches' = apiFetches + FetchesAfter(Settle(r))
    /\ UNCHANGED <<apiOpts, apiSent, tokVars, tokLast>>
    /\ UNCHANGED notApi

\* line 238: fetch itself rejects; the error goes to the caller as it is
ApiFetchFail ==
    /\ apiPc = "sent"
    /\ apiPc' = "done"
    /\ apiOut' = FetchError
    /\ apiFetches' = apiFetches + FetchesAfter(FetchError)
    /\ UNCHANGED <<apiOpts, apiSent, apiResp, tokVars, tokLast>>
    /\ UNCHANGED notApi

\* the caller is done with the result
ApiForget ==
    /\ apiPc = "done"
    /\ apiPc' = "idle"
    /\ apiOpts' = NoOptions
    /\ apiSent' = NoRequest
    /\ apiResp' = NoResponse
    /\ apiOut' = NoOutcome
    /\ apiFetches' = 0
    /\ UNCHANGED <<tokVars, tokLast>>
    /\ UNCHANGED notApi

(***************************************************************************)
(* apiClient: the URL of a request (path and query)                        *)
(***************************************************************************)
MaxQuery == 2           \* at most this many entries in a query object

\* a value of a query entry: its type and String(value)
QNull == [type |-> "null", text |-> <<"n", "u", "l", "l">>]
QUndefined == [type |-> "undefined", text |-> <<"u", "n", "d", "e", "f", "i", "n", "e", "d">>]
QString(text) == [type |-> "string", text |-> text]

QueryValues ==
    { QNull, QUndefined, QString(<<>>), QString(<<"d", "o", "s", "e", "n">>),
      QString(<<"a", " ", "b", "&", "c", "=", "d">>),
      [type |-> "number", text |-> <<"0">>],
      [type |-> "boolean", text |-> <<"f", "a", "l", "s", "e">>] }

QueryKeys == {<<"s", "e", "a", "r", "c", "h">>, <<"r", "o", "l", "e">>, <<"p", "a", "g", "e">>}

\* Object.entries(query): the entries in insertion order, keys distinct
Queries ==
    {q \in SeqsUpTo([key : QueryKeys, value : QueryValues], MaxQuery) :
        \A i, j \in DOMAIN q : i # j => q[i].key # q[j].key}

\* the relative paths a caller passes: with and without leading slash, and
\* one that brings a query string of its own
Paths == {<<"/", "a", "p", "i", "/", "u", "s", "e", "r", "s">>, <<"a", "p", "i", "/", "u", "s", "e", "r", "s">>, <<"/", "/", "a", "p", "i", "/", "u", "s", "e", "r", "s", "?", "x", "=", "1">>}

\* every entry kept but null and undefined: an empty string is appended
OmittedNullish(v) == v.type \in {"null", "undefined"}

\* line 202: value === null || value === undefined || value === ""
Omitted(v) ==
    v.type \in {"null", "undefined"} \/ (v.type = "string" /\ v.text = <<>>)

\* the application/x-www-form-urlencoded serialisation of one character, as
\* URLSearchParams.prototype.toString does it
EncodeChar(c) ==
    CASE c = " " -> <<"+">>
      [] c = "&" -> <<"%", "2", "6">>
      [] c = "=" -> <<"%", "3", "D">>
      [] c = "+" -> <<"%", "2", "B">>
      [] c = "?" -> <<"%", "3", "F">>
      [] c = "%" -> <<"%", "2", "5">>
      [] OTHER -> <<c>>

RECURSIVE Encode(_)
Encode(t) == IF t = <<>> THEN <<>> ELSE EncodeChar(Head(t)) \o Encode(Tail(t))

RECURSIVE ParamsToString(_, _)
\* lines 200-207: the loop over the entries and params.toString(); first
\* tells whether nothing has been appended yet
ParamsToString(q, first) ==
    IF q = <<>> THEN <<>>
    ELSE IF Omitted(Head(q).value) THEN ParamsToString(Tail(q), first)
    ELSE (IF first THEN <<>> ELSE <<"&">>)
             \o Encode(Head(q).key) \o <<"=">> \o Encode(Head(q).value.text)
             \o ParamsToString(Tail(q), FALSE)

RECURSIVE StripLeadingSlashes(_)
\* path.replace(/^\/+/, "")
StripLeadingSlashes(path) ==
    IF path # <<>> /\ Head(path) = "/" THEN StripLeadingSlashes(Tail(path))
    ELSE path

Includes(t, c) == \E i \in DOMAIN t : t[i] = c

\* lines 195-211: the URL, written from the "/" that follows the base URL
BuildUrl(path, q) ==
    LET url == <<"/">> \o StripLeadingSlashes(path)
        qs  == ParamsToString(q, TRUE)
    IN  IF Len(q) > 0 /\ qs # <<>>
        THEN url \o (IF Includes(url, "?") THEN <<"&">> ELSE <<"?">>) \o qs
        ELSE url

NoCall == [path |-> <<>>, query |-> <<>>]

(***************************************************************************)
(* Single calls of apiRequest's URL building and of the generator          *)
(***************************************************************************)
MaxOrder == 1000        \* sequence numbers up to this are generated

\* the names a call of the generator is given
GenNames == NamePool \cup {<<"A", "l">>, <<"S", "i", "t", "i", "	", "N", "u", "r", " ", "A", "i", "s", "y", "a", "h">>}

GenDates ==
    Dates \cup {[year |-> 2025, month |-> 9, day |-> 10],
                [year |-> 2000, month |-> 0, day |-> 1],
                [year |-> 9999, month |-> 11, day |-> 31]}

NoGen == [name |-> <<>>, order |-> 0, date |-> NoDate]

NoIdentity == [nim |-> <<>>, password |-> <<>>, username |-> <<>>]

InitCalls ==
    /\ urlIn = NoCall
    /\ urlOut = <<>>
    /\ genIn = NoGen
    /\ genOut = NoIdentity

notCalls ==
    <<bulkVars, apiVars, tokVars, authVars, viewVars, tokLast, pageVars>>

\* part_005 lines 194-211: apiRequest builds the URL of a call; a behaviour
\* follows one call
CallBuildUrl(path, q) ==
    /\ urlIn = NoCall
    /\ urlIn' = [path |-> path, query |-> q]
    /\ urlOut' = BuildUrl(path, q)
    /\ UNCHANGED <<genIn, genOut>>
    /\ UNCHANGED notCalls

\* part_000 lines 84-102: one call of generateNimAndPassword; a behaviour
\* follows one call
CallGenerate(name, order, date) ==
    /\ genIn = NoGen
    /\ genIn' = [name |-> name, order |-> order, date |-> date]
    /\ genOut' = generateNimAndPassword(name, order, date)
    /\ UNCHANGED <<urlIn, urlOut>>
    /\ UNCHANGED notCalls

(***************************************************************************)
(* AuthProvider, with HomePage, ChangePasswordPage and AdminLayout         *)
(***************************************************************************)
MaxInFlight == 2        \* at most this many requests are in flight at once

NoUser == [id |-> 0, role |-> Null, force_password_change |-> FALSE]

\* the users the backend may answer with
AuthUsers ==
    { [id |-> 1, role |-> "superadmin", force_password_change |-> FALSE],
      [id |-> 2, role |-> "mahasiswa", force_password_change |-> TRUE],
      [id |-> 3, role |-> "superadmin", force_password_change |-> TRUE],
      [id |-> 4, role |-> "dosen", force_password_change |-> FALSE] }

\* pages a browser load can open; the others are only redirected to
LoadablePages == {"home", "changePassword", "superadmin"}

\* a request in flight: its kind, the token apiRequest attached, whether
\* apiRequest read the stored token, what the calling closure holds (token,
\* user) and the page whose handler awaits it
Flight(kind, bearer, reads, cTok, cUser, from) ==
    [kind |-> kind, bearer |-> bearer, reads |-> reads,
     cTok |-> cTok, cUser |-> cUser, from |-> from]

Range(s) == {s[i] : i \in DOMAIN s}

RemoveAt(s, i) == SubSeq(s, 1, i - 1) \o SubSeq(s, i + 1, Len(s))

Op(name, tok) == [op |-> name, tok |-> tok]

\* AdminLayout lines 50-55
IsAllowed(init, load, u) ==
    init /\ ~load /\ u # NoUser /\ u.role = "superadmin"
         /\ ~u.force_password_change

\* AdminLayout lines 57-68 and 70 on: what the layout renders
AdminLayoutShows(init, load, u) ==
    IF IsAllowed(init, load, u) THEN "children" ELSE "placeholder"

\* the redirects with AdminLayout testing the role before the forced change
\* of password
RedirectedRoleFirst(p, init, u) ==
    IF ~init THEN p
    ELSE IF p = "changePassword" /\ u = NoUser THEN "login"
    ELSE IF p = "superadmin" /\ u = NoUser THEN "login"
    ELSE IF p = "superadmin" /\ u.role # "superadmin" THEN "unauthorized"
    ELSE IF p = "superadmin" /\ u.force_password_change THEN "changePassword"
    ELSE p

\* the page after the redirect effects have run: ChangePasswordPage lines
\* 25-33, AdminLayout lines 15-40
Redirected(p, init, u) ==
    IF ~init THEN p
    ELSE IF p = "changePassword" /\ u = NoUser THEN "login"
    ELSE IF p = "superadmin" /\ u = NoUser THEN "login"
    ELSE IF p = "superadmin" /\ u.force_password_change THEN "changePassword"
    ELSE IF p = "superadmin" /\ u.role # "superadmin" THEN "unauthorized"
    ELSE p

\* ChangePasswordPage lines 35-50: redirectToDashboard with the closure's user
Dashboard(p, u) ==
    IF u = NoUser THEN p
    ELSE IF u.role = "superadmin" THEN "superadmin"
    ELSE "dashboard"

notAuth ==
    <<bulkVars, apiVars, viewVars, callVars, tokLast, pageVars>>

InitAuthOn(pages) ==
    /\ user = NoUser
    /\ token = Null
    /\ loading = FALSE
    /\ initialized = FALSE
    /\ started = FALSE
    /\ page \in pages
    /\ submitting = FALSE
    /\ inflight = <<>>
    /\ lastOp = Op("Init", Null)
    /\ gave = "none"

\* a logout that lets the error of its request through
LogoutGivesRethrow(ok) == IF ok THEN "resolved" ELSE "Error"

\* AuthContext lines 143-152: the catch block is empty, so logout resolves
\* whether its request succeeded or not
LogoutGives(ok) == "resolved"

\* AuthContext lines 113-135: login throws a new Error with the message found
LoginGivesOnFail == "Error"

\* AuthContext lines 59-72, 94: the mount effect up to the request
InitAuthStart ==
    /\ ~started
    /\ started' = TRUE
    /\ GetAuthTokenStep
    /\ LET existingToken == getAuthToken(authToken, localStore) IN
       IF ~Truthy(existingToken)
       THEN /\ initialized' = TRUE
            /\ page' = Redirected(page, TRUE, user)
            /\ UNCHANGED <<token, loading, inflight>>
       ELSE /\ token' = existingToken
            /\ loading' = TRUE
            /\ inflight' = Append(inflight,
                   Flight("me-init", existingToken, TRUE, Null, NoUser, page))
            /\ UNCHANGED <<initialized, page>>
    /\ lastOp' = Op("InitAuthStart", Null)
    /\ gave' = "none"
    /\ UNCHANGED <<user, submitting>>
    /\ UNCHANGED notAuth

\* lines 75-78, 86-90: /api/auth/me answered
InitAuthOk(i, me) ==
    /\ i \in DOMAIN inflight /\ inflight[i].kind = "me-init"
    /\ inflight' = RemoveAt(inflight, i)
    /\ user' = me
    /\ loading' = FALSE
    /\ initialized' = TRUE
    /\ page' = Redirected(page, TRUE, me)
    /\ lastOp' = Op("InitAuthOk", Null)
    /\ gave' = "none"
    /\ UNCHANGED <<token, started, submitting, tokVars>>
    /\ UNCHANGED notAuth

\* lines 79-90: /api/auth/me failed
InitAuthFail(i) ==
    /\ i \in DOMAIN inflight /\ inflight[i].kind = "me-init"
    /\ inflight' = RemoveAt(inflight, i)
    /\ clearAuthToken
    /\ token' = Null
    /\ user' = NoUser
    /\ loading' = FALSE
    /\ initialized' = TRUE
    /\ page' = Redirected(page, TRUE, NoUser)
    /\ lastOp' = Op("InitAuthFail", Null)
    /\ gave' = "none"
    /\ UNCHANGED <<started, submitting>>
    /\ UNCHANGED notAuth

\* HomePage lines 43-56, 172-180 and AuthContext lines 101-108: the Login
\* button (disabled while authLoading) calls login; the request carries no
\* token (withAuth: false)
Login ==
    /\ started /\ page = "home" /\ ~loading
    /\ Len(inflight) < MaxInFlight
    /\ loading' = TRUE
    /\ inflight' = Append(inflight, Flight("login", Null, FALSE, token, user,
                                        page))
    /\ lastOp' = Op("Login", Null)
    /\ gave' = "none"
    /\ UNCHANGED <<user, token, initialized, started, page, submitting,
                   tokVars>>
    /\ UNCHANGED notAuth

\* AuthContext lines 110-112, 136-138
LoginOk(i, t, u) ==
    /\ i \in DOMAIN inflight /\ inflight[i].kind = "login"
    /\ inflight' = RemoveAt(inflight, i)
    /\ setAuthToken(t)
    /\ token' = t
    /\ user' = u
    /\ loading' = FALSE
    /\ page' = Redirected(page, initialized, u)
    /\ lastOp' = Op("LoginOk", t)
    /\ gave' = "resolved"
    /\ UNCHANGED <<initialized, started, submitting>>
    /\ UNCHANGED notAuth

\* a login that logs out when its request is rejected
LoginFailClears(i) ==
    /\ i \in DOMAIN inflight /\ inflight[i].kind = "login"
    /\ inflight' = RemoveAt(inflight, i)
    /\ clearAuthToken
    /\ token' = Null
    /\ user' = NoUser
    /\ loading' = FALSE
    /\ lastOp' = Op("LoginFail", Null)
    /\ gave' = LoginGivesOnFail
    /\ UNCHANGED <<initialized, started, page, submitting>>
    /\ UNCHANGED notAuth

\* AuthContext lines 113-138: the request rejected; login rethrows
LoginFail(i) ==
    /\ i \in DOMAIN inflight /\ inflight[i].kind = "login"
    /\ inflight' = RemoveAt(inflight, i)
    /\ loading' = FALSE
    /\ lastOp' = Op("LoginFail", Null)
    /\ gave' = LoginGivesOnFail
    /\ UNCHANGED <<user, token, initialized, started, page, submitting,
                   tokVars>>
    /\ UNCHANGED notAuth

\* whether the page shows a Logout button that can be pressed: HomePage lines
\* 182-191, ChangePasswordPage lines 115-125 and 144-150, AdminLayout lines
\* 57-68 and 91-97
LogoutOffered ==
    \/ page = "home" /\ started /\ ~loading /\ user # NoUser
    \/ page = "changePassword" /\ initialized /\ ~loading /\ user # NoUser
    \/ page = "superadmin" /\ IsAllowed(initialized, loading, user)

\* AuthContext lines 141-144: logout up to the request
Logout ==
    /\ LogoutOffered
    /\ Len(inflight) < MaxInFlight
    /\ loading' = TRUE
    /\ GetAuthTokenStep
    /\ inflight' = Append(inflight,
           Flight("logout", getAuthToken(authToken, localStore), TRUE,
                  Null, NoUser, page))
    /\ lastOp' = Op("Logout", Null)
    /\ gave' = "none"
    /\ UNCHANGED <<user, token, initialized, started, page, submitting>>
    /\ UNCHANGED notAuth

\* the page after a logout started on page `from` has finished:
\* ChangePasswordPage lines 109-112 and AdminLayout lines 42-48 go to /login
AfterLogout(p, from) ==
    IF from \in {"changePassword", "superadmin"} THEN "login" ELSE p

\* logout that keeps the token when the request failed
LogoutSettleKeepOnFail(i, ok) ==
    /\ i \in DOMAIN inflight /\ inflight[i].kind = "logout"
    /\ inflight' = RemoveAt(inflight, i)
    /\ IF ok THEN clearAuthToken ELSE UNCHANGED tokVars
    /\ token' = Null
    /\ user' = NoUser
    /\ loading' = FALSE
    /\ page' = Redirected(AfterLogout(page, inflight[i].from), initialized,
                          NoUser)
    /\ submitting' = (submitting /\ page' = "changePassword")
    /\ lastOp' = Op(IF ok THEN "LogoutOk" ELSE "LogoutFail", Null)
    /\ gave' = LogoutGives(ok)
    /\ UNCHANGED <<initialized, started>>
    /\ UNCHANGED notAuth

\* AuthContext lines 145-152: the logout request settled, either way; a
\* ChangePasswordPage that is left loses its state
LogoutSettle(i, ok) ==
    /\ i \in DOMAIN inflight /\ inflight[i].kind = "logout"
    /\ inflight' = RemoveAt(inflight, i)
    /\ clearAuthToken
    /\ token' = Null
    /\ user' = NoUser
    /\ loading' = FALSE
    /\ page' = Redirected(AfterLogout(page, inflight[i].from), initialized,
                          NoUser)
    /\ submitting' = (submitting /\ page' = "changePassword")
    /\ lastOp' = Op(IF ok THEN "LogoutOk" ELSE "LogoutFail", Null)
    /\ gave' = LogoutGives(ok)
    /\ UNCHANGED <<initialized, started>>
    /\ UNCHANGED notAuth

\* ChangePasswordPage lines 52-86, 115-125, 219-225: the form is shown when
\* auth is initialized, not loading and a user is present; the submit button
\* is disabled while submitting.  The request reads the stored token.
ChangePasswordSubmit ==
    /\ page = "changePassword" /\ initialized /\ ~loading /\ user # NoUser
    /\ ~submitting
    /\ Len(inflight) < MaxInFlight
    /\ submitting' = TRUE
    /\ GetAuthTokenStep
    /\ inflight' = Append(inflight,
           Flight("changePassword", getAuthToken(authToken, localStore), TRUE,
                  token, user, page))
    /\ lastOp' = Op("ChangePasswordSubmit", Null)
    /\ gave' = "none"
    /\ UNCHANGED <<user, token, loading, initialized, started, page>>
    /\ UNCHANGED notAuth

\* ChangePasswordPage lines 88-97 and AuthContext lines 155-160: the password
\* was changed; refreshUser of the submitting render runs: it returns at once
\* when that render had no token, else it asks /api/auth/me
ChangePasswordOk(i) ==
    /\ i \in DOMAIN inflight /\ inflight[i].kind = "changePassword"
    /\ LET f == inflight[i] IN
       IF ~Truthy(f.cTok)
       THEN /\ inflight' = RemoveAt(inflight, i)
            /\ submitting' = FALSE
            /\ page' = Redirected(Dashboard(page, f.cUser), initialized, user)
            /\ UNCHANGED <<loading, tokVars>>
       ELSE /\ loading' = TRUE
            /\ GetAuthTokenStep
            /\ inflight' = Append(RemoveAt(inflight, i),
                   Flight("me-refresh", getAuthToken(authToken, localStore),
                          TRUE, f.cTok, f.cUser, f.from))
            /\ UNCHANGED <<submitting, page>>
    /\ lastOp' = Op("ChangePasswordOk", Null)
    /\ gave' = "none"
    /\ UNCHANGED <<user, token, initialized, started>>
    /\ UNCHANGED notAuth

\* ChangePasswordPage lines 98-106: the request rejected
ChangePasswordFail(i) ==
    /\ i \in DOMAIN inflight /\ inflight[i].kind = "changePassword"
    /\ inflight' = RemoveAt(inflight, i)
    /\ submitting' = FALSE
    /\ lastOp' = Op("ChangePasswordFail", Null)
    /\ gave' = "none"
    /\ UNCHANGED <<user, token, loading, initialized, started, page, tokVars>>
    /\ UNCHANGED notAuth

\* AuthContext lines 160-164 and ChangePasswordPage lines 96-106: /api/auth/me
\* answered; handleSubmit goes on to the dashboard of its render's user
RefreshOk(i, me) ==
    /\ i \in DOMAIN inflight /\ inflight[i].kind = "me-refresh"
    /\ Truthy(inflight[i].bearer)   \* the backend answers a bearer only
    /\ inflight' = RemoveAt(inflight, i)
    /\ user' = me
    /\ loading' = FALSE
    /\ submitting' = FALSE
    /\ page' = Redirected(Dashboard(page, inflight[i].cUser), initialized, me)
    /\ lastOp' = Op("RefreshOk", Null)
    /\ gave' = "resolved"
    /\ UNCHANGED <<token, initialized, started, tokVars>>
    /\ UNCHANGED notAuth

\* AuthContext lines 162-164 and ChangePasswordPage lines 98-106: /api/auth/me
\* failed; refreshUser rethrows and handleSubmit shows the error
RefreshFail(i) ==
    /\ i \in DOMAIN inflight /\ inflight[i].kind = "me-refresh"
    /\ inflight' = RemoveAt(inflight, i)
    /\ loading' = FALSE
    /\ submitting' = FALSE
    /\ lastOp' = Op("RefreshFail", Null)
    /\ gave' = "rejected"
    /\ UNCHANGED <<user, token, initialized, started, page, tokVars>>
    /\ UNCHANGED notAuth

\* the browser loads page p: the script starts anew (module variable and
\* React state at their initial values, pending handlers gone); the
\* persisted token stays
Reload(p) ==
    /\ started
    /\ authToken' = Null
    /\ UNCHANGED localStore
    /\ user' = NoUser
    /\ token' = Null
    /\ loading' = FALSE
    /\ initialized' = FALSE
    /\ started' = FALSE
    /\ page' = p
    /\ submitting' = FALSE
    /\ inflight' = <<>>
    /\ lastOp' = Op("Reload", Null)
    /\ gave' = "none"
    /\ UNCHANGED notAuth

(***************************************************************************)
(* Views that load in an effect guarded by a liveness flag:                *)
(*   "courses"      TeacherMyCoursesPage   (dependency statusFilter)       *)
(*   "quiz"         TeacherQuizDetailPage  (dependency quizId)             *)
(*   "assignment"   teacher assignment detail page (assignmentId)          *)
(*   "courseDetail" CourseDetailPage       (courseId; two requests)        *)
(***************************************************************************)
MaxRuns == 3            \* at most this many runs of the effect

ViewPages == {"courses", "quiz", "assignment", "courseDetail"}

\* the values the effect's dependency takes; "" is an id that is missing
Deps(p) == IF p = "courses" THEN {"all", "draft", "active"}
           ELSE {"", "7", "8"}

InitialDep(p) == IF p = "courses" THEN "all" ELSE "7"

\* what an effect run loads: one request per slot
Slots(p) == IF p = "courseDetail" THEN {"sections", "grades"} ELSE {"main"}

AllSlots == {"main", "sections", "grades"}

NoData == [run |-> 0, dep |-> Null]

\* whether the effect goes past its first line (if (!id) return)
EffectLoads(p, dep) == p = "courses" \/ dep # ""

notView ==
    <<bulkVars, apiVars, tokVars, authVars, callVars, tokLast, pageVars>>

InitViewOn(pages) ==
    /\ vPage \in pages
    /\ vMounted = TRUE
    /\ vDep = InitialDep(vPage)
    /\ vRun = 0
    /\ vActive = <<>>
    /\ vPending = {}
    /\ vData = [s \in AllSlots |-> NoData]
    /\ vError = [s \in AllSlots |-> Null]
    /\ vLoading = [s \in AllSlots |-> TRUE]
    /\ vCourse = NoData
    /\ vLast = [op |-> "Init", run |-> 0, slot |-> Null]

\* the cleanup of the previous run: isActive = false
CleanedUp(active) ==
    [r \in DOMAIN active |-> IF r = Len(active) THEN FALSE ELSE active[r]]

\* a run of the effect under dependency dep: the cleanup of the run before,
\* then the body up to the requests (part_002 lines 89-123, part_001 lines
\* 141-179, teacher/assignments/[id]/page.tsx lines 139-187, part_003 lines
\* 415-484)
RunEffect(dep) ==
    /\ vRun' = vRun + 1
    /\ vDep' = dep
    /\ vActive' = Append(CleanedUp(vActive), EffectLoads(vPage, dep))
    /\ IF EffectLoads(vPage, dep)
       THEN /\ vPending' = vPending \cup
                    {[run |-> vRun + 1, slot |-> s, dep |-> dep] :
                         s \in Slots(vPage)}
            /\ vLoading' = [s \in AllSlots |->
                    IF s \in Slots(vPage) THEN TRUE ELSE vLoading[s]]
            /\ vError' = [s \in AllSlots |->
                    IF s \in Slots(vPage) THEN Null ELSE vError[s]]
       ELSE UNCHANGED <<vPending, vLoading, vError>>
    /\ UNCHANGED <<vPage, vMounted, vData, vCourse>>

\* the view is mounted: the effect runs for the first time
VMount ==
    /\ vMounted /\ vRun = 0
    /\ RunEffect(vDep)
    /\ vLast' = [op |-> "VMount", run |-> vRun + 1, slot |-> Null]
    /\ UNCHANGED notView

\* statusFilter (part_002 line 187) or the id of the route changes: the
\* effect is run again
VChangeDep(dep) ==
    /\ vMounted /\ vRun > 0 /\ vRun < MaxRuns
    /\ dep \in Deps(vPage) /\ dep # vDep
    /\ RunEffect(dep)
    /\ vLast' = [op |-> "VChangeDep", run |-> vRun + 1, slot |-> Null]
    /\ UNCHANGED notView

\* the view is torn down: the cleanup of the last run
VUnmount ==
    /\ vMounted /\ vRun > 0
    /\ vMounted' = FALSE
    /\ vActive' = CleanedUp(vActive)
    /\ vLast' = [op |-> "VUnmount", run |-> vRun, slot |-> Null]
    /\ UNCHANGED <<vPage, vDep, vRun, vPending, vData, vError, vLoading,
                   vCourse>>
    /\ UNCHANGED notView

\* the flag test left out
FlagSetAlways(run) == TRUE

\* if (isActive) / if (!isActive) return, for the run the closure belongs to
FlagSet(run) == vActive[run]

\* a request of a run is answered: the try block and the finally block
VResolve(q) ==
    /\ q \in vPending
    /\ vPending' = vPending \ {q}
    /\ IF FlagSet(q.run)
       THEN /\ vData' = [vData EXCEPT
                              ![q.slot] = [run |-> q.run, dep |-> q.dep]]
            \* part_003 lines 439, 463: setCourse((prev) => prev ?? data.course)
            /\ vCourse' = IF vPage = "courseDetail" /\ vCourse = NoData
                          THEN [run |-> q.run, dep |-> q.dep] ELSE vCourse
            /\ vLoading' = [vLoading EXCEPT ![q.slot] = FALSE]
       ELSE UNCHANGED <<vData, vCourse, vLoading>>
    /\ vLast' = [op |-> "VResolve", run |-> q.run, slot |-> q.slot]
    /\ UNCHANGED <<vPage, vMounted, vDep, vRun, vActive, vError>>
    /\ UNCHANGED notView

\* a request of a run fails: the catch block and the finally block
VReject(q) ==
    /\ q \in vPending
    /\ vPending' = vPending \ {q}
    /\ IF FlagSet(q.run)
       THEN /\ vError' = [vError EXCEPT ![q.slot] = "Gagal memuat."]
            /\ vLoading' = [vLoading EXCEPT ![q.slot] = FALSE]
       ELSE UNCHANGED <<vError, vLoading>>
    /\ vLast' = [op |-> "VReject", run |-> q.run, slot |-> q.slot]
    /\ UNCHANGED <<vPage, vMounted, vDep, vRun, vActive, vData, vCourse>>
    /\ UNCHANGED notView

(***************************************************************************)
(* TeacherMyCoursesPage: handleToggleStatus                                *)
(***************************************************************************)
MaxToggles == 2         \* at most this many status requests are in flight

CourseIds == {1, 2}

CourseStatuses == {"draft", "active", "finished"}

\* a page whose handler posts for every course
IsFinishedNever(status) == FALSE

\* line 131: course.status === "finished"
IsFinished(status) == status = "finished"

\* a button that moves a course on: draft, active, finished
NextStatusAdvance(status) == IF status = "draft" THEN "active" ELSE "finished"

\* lines 136-137: nextStatus
NextStatus(status) == IF status = "draft" THEN "active" ELSE "draft"

\* lines 47-63, 150-154: getErrorMessage gives the message of the error or of
\* its body, else the fallback
ToggleErrors ==
    {"Gagal mengubah status kelas. Silakan coba lagi.", "Forbidden"}

notToggle ==
    <<bulkVars, apiVars, tokVars, authVars, viewVars, callVars, tokLast,
      quizVars, loadVars>>

InitToggleOn(lists) ==
    /\ tCourses \in lists
    /\ tUpdatingId = 0
    /\ tError = Null
    /\ tFlights = <<>>
    /\ tLast = [op |-> "init", id |-> 0]

\* lines 130-145: the handler is called with a course of the list shown
HandleToggleStatus(id) ==
    /\ Len(tFlights) < MaxToggles
    /\ tLast' = [op |-> "toggle", id |-> id]
    /\ IF IsFinished(tCourses[id])
       THEN /\ tError' =
                  "Kelas yang sudah selesai tidak dapat diubah statusnya."
            /\ UNCHANGED <<tUpdatingId, tFlights>>
       ELSE /\ tUpdatingId' = id
            /\ tError' = Null
            /\ tFlights' = Append(tFlights,
                   [id |-> id, status |-> NextStatus(tCourses[id])])
    /\ UNCHANGED tCourses
    /\ UNCHANGED notToggle

\* lines 146-149, 155-157: the request i is answered with the course as the
\* backend stored it, with the status that was asked for
ToggleOk(i) ==
    /\ i \in DOMAIN tFlights
    /\ tFlights' = RemoveAt(tFlights, i)
    /\ tCourses' = [c \in CourseIds |->
                       IF c = tFlights[i].id THEN tFlights[i].status
                       ELSE tCourses[c]]
    /\ tUpdatingId' = 0
    /\ tLast' = [op |-> "ok", id |-> tFlights[i].id]
    /\ UNCHANGED tError
    /\ UNCHANGED notToggle

\* lines 150-157: the request i is rejected
ToggleFail(i, message) ==
    /\ i \in DOMAIN tFlights
    /\ tFlights' = RemoveAt(tFlights, i)
    /\ tError' = message
    /\ tUpdatingId' = 0
    /\ tLast' = [op |-> "fail", id |-> tFlights[i].id]
    /\ UNCHANGED tCourses
    /\ UNCHANGED notToggle

(***************************************************************************)
(* TeacherQuizDetailPage: the question editor                              *)
(***************************************************************************)
MaxQuestions == 2       \* at most this many questions in the draft
MaxOptions == 3         \* at most this many options in a question
MaxEdits == 3           \* at most this many editor inputs after the load

\* an optional value: null / undefined, or a value
None == <<>>
Some(x) == <<x>>

\* questionMessage: a text and the question number in it (0 where the text
\* has none); the text "null" stands for null
Msg(text, n) == [text |-> text, n |-> n]
NoMsg == Msg("null", 0)

\* lines 127-134: a QuizQuestion; its text is a sequence of characters,
\* points is None where the value is no number, correct is
\* correct_option_index
Question(type, text, points, options, correct) ==
    [type |-> type, text |-> text, points |-> points, options |-> options,
     correct |-> correct]

\* the questions /api/teacher/quizzes/{id}/attempts answers with
RawValidChoice ==
    Question("multiple_choice", Some(<<"Q">>), Some(2),
             Some(<<Some(<<"a">>), Some(<<"b">>)>>), Some(1))
RawEmptyAnswer == Question("short_answer", None, None, None, None)
RawZeroPoints ==
    Question("multiple_choice", Some(<<"Q">>), Some(0),
             Some(<<Some(<<"a">>)>>), None)
RawBadIndex ==
    Question("multiple_choice", Some(<<"Q">>), Some(1),
             Some(<<Some(<<"a">>), None>>), Some(2))

RawQuizzes ==
    { [questions |-> None],
      [questions |-> Some(<<RawValidChoice>>)],
      [questions |-> Some(<<RawValidChoice, RawEmptyAnswer>>)],
      [questions |-> Some(<<RawZeroPoints>>)],
      [questions |-> Some(<<RawBadIndex>>)] }

\* lines 326-339, 526-539: null texts become "", points that are no number
\* become 1
NormalizedQuestion(q) ==
    [q EXCEPT
        !.text = IF q.text = None THEN Some(<<>>) ELSE q.text,
        !.points = IF q.points = None THEN Some(1) ELSE q.points,
        !.options =
            IF q.options = None THEN None
            ELSE Some([k \in DOMAIN q.options[1] |->
                         IF q.options[1][k] = None THEN Some(<<>>)
                         ELSE q.options[1][k]])]

\* lines 322-339, 523-539: the draft made of the questions of a quiz
Normalized(qz) ==
    LET incoming == IF qz.questions = None THEN <<>> ELSE qz.questions[1]
    IN  [i \in DOMAIN incoming |-> NormalizedQuestion(incoming[i])]

\* a validation that accepts an index one past the last option
QuestionFaultIndexLoose(q) ==
    IF q.text = None \/ q.text[1] = <<>> \/ Trim(q.text[1]) = <<>>
    THEN "text"
    ELSE IF q.points = None \/ q.points[1] <= 0
    THEN "points"
    ELSE IF q.type = "multiple_choice"
    THEN LET options == IF q.options = None THEN <<>> ELSE q.options[1]
         IN  IF Len(options) < 2 THEN "options"
             ELSE IF \/ q.correct = None
                     \/ q.correct[1] < 0
                     \/ q.correct[1] > Len(options)
                  THEN "correct"
                  ELSE "none"
    ELSE "none"

\* lines 472-496: the first check a question fails, "none" if it passes
QuestionFault(q) ==
    IF q.text = None \/ q.text[1] = <<>> \/ Trim(q.text[1]) = <<>>
    THEN "text"
    ELSE IF q.points = None \/ q.points[1] <= 0
    THEN "points"
    ELSE IF q.type = "multiple_choice"
    THEN LET options == IF q.options = None THEN <<>> ELSE q.options[1]
         IN  IF Len(options) < 2 THEN "options"
             ELSE IF \/ q.correct = None
                     \/ q.correct[1] < 0
                     \/ q.correct[1] >= Len(options)
                  THEN "correct"
                  ELSE "none"
    ELSE "none"

\* line 471: the first question of the draft that fails a check, 0 if none
FirstFault(draft) ==
    LET bad == {i \in DOMAIN draft : QuestionFault(draft[i]) # "none"}
    IN  IF bad = {} THEN 0 ELSE CHOOSE i \in bad : \A j \in bad : i <= j

\* lines 473-495: the message of the Error thrown for question idx
FaultMessage(draft, idx) ==
    LET fault == QuestionFault(draft[idx]) IN
    IF fault = "text" THEN Msg("Soal #n belum diisi teksnya.", idx)
    ELSE IF fault = "points"
    THEN Msg("Poin untuk soal #n harus angka lebih dari 0.", idx)
    ELSE IF fault = "options"
    THEN Msg("Soal pilihan ganda #n minimal punya 2 opsi.", idx)
    ELSE Msg("Soal pilihan ganda #n belum memiliki jawaban benar yang valid.",
             idx)

\* what a rejected PUT throws
PutFailures ==
    { [kind |-> "Error", message |-> "Unauthenticated.", data |-> None],
      [kind |-> "Error", message |-> "", data |-> None],
      [kind |-> "object", message |-> "Unprocessable",
       data |-> Some([message |-> "The questions field is invalid.",
                      error |-> Null])],
      [kind |-> "object", message |-> Null,
       data |-> Some([message |-> Null, error |-> Null])],
      [kind |-> "falsy", message |-> Null, data |-> None] }

\* lines 205-226
ExtractErrorMessage(e, fallback) ==
    IF e.kind = "falsy" THEN fallback
    ELSE IF e.kind = "string" THEN e.message
    ELSE IF e.kind = "Error"
    THEN IF e.message # "" THEN e.message ELSE fallback
    ELSE IF e.data # None /\ e.data[1].message # Null THEN e.data[1].message
    ELSE IF e.data # None /\ e.data[1].error # Null THEN e.data[1].error
    ELSE IF e.message # Null THEN e.message
    ELSE fallback

notQuiz ==
    <<bulkVars, apiVars, tokVars, authVars, viewVars, callVars, tokLast,
      toggleVars, loadVars>>

\* lines 280-300: the page as constructed, for the ids the route can give
InitQuizOn(ids) ==
    /\ quizId \in ids
    /\ quiz = None
    /\ qzLoading = TRUE
    /\ qzError = Null
    /\ questionsDraft = <<>>
    /\ editingQuestions = FALSE
    /\ savingQuestions = FALSE
    /\ questionMessage = NoMsg
    /\ putFlight = None
    /\ qzEdits = 0
    /\ qzLast = "none"

\* lines 302-343: the request of the mount effect answers
LoadQuizOk(raw) ==
    /\ quizId # ""
    /\ qzLoading
    /\ quiz' = Some(raw)
    /\ questionsDraft' = Normalized(raw)
    /\ qzLoading' = FALSE
    /\ qzLast' = "load"
    /\ UNCHANGED <<quizId, qzError, editingQuestions, savingQuestions,
                   questionMessage, putFlight, qzEdits>>
    /\ UNCHANGED notQuiz

\* lines 343-353: the request of the mount effect fails
LoadQuizFail(e) ==
    /\ quizId # ""
    /\ qzLoading
    /\ qzError' =
          ExtractErrorMessage(e, "Gagal memuat detail quiz dan attempts.")
    /\ qzLoading' = FALSE
    /\ qzLast' = "load"
    /\ UNCHANGED <<quizId, quiz, questionsDraft, editingQuestions,
                   savingQuestions, questionMessage, putFlight, qzEdits>>
    /\ UNCHANGED notQuiz

\* lines 562-611: the editor is rendered
EditorShown == quizId # "" /\ ~qzLoading /\ qzError = Null /\ quiz # None

\* every handler of an input of the editor ends this way
Edited(draft) ==
    /\ EditorShown
    /\ qzEdits < MaxEdits
    /\ qzEdits' = qzEdits + 1
    /\ questionsDraft' = draft
    /\ editingQuestions' = TRUE
    /\ questionMessage' = NoMsg
    /\ qzLast' = "edit"
    /\ UNCHANGED <<quizId, quiz, qzLoading, qzError, savingQuestions,
                   putFlight>>
    /\ UNCHANGED notQuiz

\* lines 368-380: the question the editor adds
NewQuestion(type) ==
    IF type = "multiple_choice"
    THEN Question(type, Some(<<>>), Some(1),
                  Some(<<Some(<<>>), Some(<<>>)>>), Some(0))
    ELSE Question(type, Some(<<>>), Some(1), None, None)

\* lines 365-385
HandleAddQuestion(type) ==
    /\ Len(questionsDraft) < MaxQuestions
    /\ Edited(Append(questionsDraft, NewQuestion(type)))

\* lines 387-391
HandleRemoveQuestion(index) ==
    /\ index \in DOMAIN questionsDraft
    /\ Edited(RemoveAt(questionsDraft, index))

\* line 783: Number(e.target.value) || 1
PointsInput(n) == IF n = 0 THEN 1 ELSE n

\* lines 757-822: what the inputs of a question hand to
\* handleQuestionFieldChange
FieldInputs(q) ==
    {[field |-> "text", value |-> Some(t)] : t \in {<<" ">>, <<"Q">>}}
    \cup {[field |-> "points", value |-> Some(PointsInput(n))] :
             n \in {0 - 1, 0, 3}}
    \cup (IF q.type = "multiple_choice" /\ q.options # None
          THEN {[field |-> "correct", value |-> Some(k - 1)] :
                   k \in DOMAIN q.options[1]}
          ELSE {})

\* lines 393-403
HandleQuestionFieldChange(index, in) ==
    /\ index \in DOMAIN questionsDraft
    /\ in \in FieldInputs(questionsDraft[index])
    /\ Edited([questionsDraft EXCEPT ![index] =
                 IF in.field = "text" THEN [@ EXCEPT !.text = in.value]
                 ELSE IF in.field = "points"
                 THEN [@ EXCEPT !.points = in.value]
                 ELSE [@ EXCEPT !.correct = in.value]])

\* line 412, 426, 444: q.options ? [...q.options] : []
OptionsOf(q) == IF q.options = None THEN <<>> ELSE q.options[1]

\* lines 405-420: the text of option optionIndex (counted from 0) is typed
HandleOptionChange(questionIndex, optionIndex) ==
    /\ questionIndex \in DOMAIN questionsDraft
    /\ questionsDraft[questionIndex].type = "multiple_choice"
    /\ optionIndex + 1 \in DOMAIN OptionsOf(questionsDraft[questionIndex])
    /\ LET q == questionsDraft[questionIndex]
       IN  Edited([questionsDraft EXCEPT ![questionIndex] =
                     [q EXCEPT !.options =
                         Some([OptionsOf(q) EXCEPT ![optionIndex + 1] =
                                  Some(<<"a">>)])]])

\* lines 422-438
HandleAddOption(questionIndex) ==
    /\ questionIndex \in DOMAIN questionsDraft
    /\ questionsDraft[questionIndex].type = "multiple_choice"
    /\ Len(OptionsOf(questionsDraft[questionIndex])) < MaxOptions
    /\ LET q == questionsDraft[questionIndex]
       IN  Edited([questionsDraft EXCEPT ![questionIndex] =
                     [q EXCEPT !.options =
                         Some(Append(OptionsOf(q), Some(<<>>)))]])

\* lines 447-454: correct_option_index after option optionIndex (counted
\* from 0) is taken out, rest being the options that remain
CorrectAfterRemoval(correct, optionIndex, rest) ==
    IF correct = None THEN None
    ELSE IF optionIndex = correct[1]
    THEN IF Len(rest) > 0 THEN Some(0) ELSE None
    ELSE IF optionIndex < correct[1] THEN Some(correct[1] - 1)
    ELSE correct

\* lines 440-461
HandleRemoveOption(questionIndex, optionIndex) ==
    /\ questionIndex \in DOMAIN questionsDraft
    /\ questionsDraft[questionIndex].type = "multiple_choice"
    /\ optionIndex + 1 \in DOMAIN OptionsOf(questionsDraft[questionIndex])
    /\ LET q == questionsDraft[questionIndex]
           rest == RemoveAt(OptionsOf(q), optionIndex + 1)
       IN  Edited([questionsDraft EXCEPT ![questionIndex] =
                     [q EXCEPT !.options = Some(rest),
                               !.correct =
                                  CorrectAfterRemoval(q.correct, optionIndex,
                                                      rest)]])

\* lines 521-543, 881: Reset, enabled while editing and not saving
HandleResetQuestionsDraft ==
    /\ EditorShown
    /\ editingQuestions
    /\ ~savingQuestions
    /\ questionsDraft' = Normalized(quiz[1])
    /\ editingQuestions' = FALSE
    /\ questionMessage' = NoMsg
    /\ qzLast' = "reset"
    /\ UNCHANGED <<quizId, quiz, qzLoading, qzError, savingQuestions,
                   putFlight, qzEdits>>
    /\ UNCHANGED notQuiz

\* lines 463-503, 512-518, 889: Save, enabled while not saving and the draft
\* is not empty, up to the await of the PUT; a failed check throws before
\* anything is awaited, so the catch and the finally run in the same step
HandleSaveQuestions ==
    /\ EditorShown
    /\ ~savingQuestions
    /\ questionsDraft # <<>>
    /\ quizId # ""
    /\ LET idx == FirstFault(questionsDraft) IN
       IF idx # 0
       THEN /\ questionMessage' =
                  Msg(ExtractErrorMessage(
                          [kind |-> "Error",
                           message |-> FaultMessage(questionsDraft, idx).text,
                           data |-> None],
                          "Gagal menyimpan pengaturan soal."), idx)
            /\ UNCHANGED <<savingQuestions, putFlight>>
       ELSE /\ savingQuestions' = TRUE
            /\ questionMessage' = NoMsg
            /\ putFlight' = Some(questionsDraft)
    /\ qzLast' = "save"
    /\ UNCHANGED <<quizId, quiz, qzLoading, qzError, questionsDraft,
                   editingQuestions, qzEdits>>
    /\ UNCHANGED notQuiz

\* lines 501-511, 516-518: the PUT succeeded
SavePutOk ==
    /\ putFlight # None
    /\ quiz' = IF quiz = None THEN quiz
               ELSE Some([quiz[1] EXCEPT !.questions = Some(putFlight[1])])
    /\ editingQuestions' = FALSE
    /\ questionMessage' = Msg("Soal quiz berhasil disimpan.", 0)
    /\ savingQuestions' = FALSE
    /\ putFlight' = None
    /\ qzLast' = "put"
    /\ UNCHANGED <<quizId, qzLoading, qzError, questionsDraft, qzEdits>>
    /\ UNCHANGED notQuiz

\* lines 512-518: the PUT failed
SavePutFail(e) ==
    /\ putFlight # None
    /\ questionMessage' =
          Msg(ExtractErrorMessage(e, "Gagal menyimpan pengaturan soal."), 0)
    /\ savingQuestions' = FALSE
    /\ putFlight' = None
    /\ qzLast' = "put"
    /\ UNCHANGED <<quizId, quiz, qzLoading, qzError, questionsDraft,
                   editingQuestions, qzEdits>>
    /\ UNCHANGED notQuiz

\* the quiz page of a route without an id
InitQuizOff == InitQuizOn({""})

(***************************************************************************)
(* UserManagementPage: overlapping calls of loadUsers                      *)
(***************************************************************************)
MaxLoads == 3           \* at most this many calls of loadUsers

\* line 139, lines 775-808: the values of roleFilter
RoleFilters == {"all", "superadmin", "dosen", "mahasiswa"}

\* the users the backend holds
BackendUsers ==
    { Student(P0307 \o <<"0", "0", "1">>),
      [role |-> "dosen", nim |-> NullS, username |-> <<"d", "s", "n">>] }

\* lines 180-192: what GET /api/admin/users answers for a role filter
Matching(role) ==
    IF role = "all" THEN BackendUsers
    ELSE {u \in BackendUsers : u.role = role}

notLoad ==
    <<apiVars, tokVars, authVars, viewVars, callVars, tokLast, toggleVars,
      quizVars>>

\* the variables of the bulk modal, which no call of loadUsers touches
bulkModal ==
    <<bulkRows, bulkError, reader, upNames, upDate, upUsers, upStart, genVars>>

\* no request of the page is followed
InitLoadOff ==
    /\ roleFilter = "all"
    /\ refreshing = FALSE
    /\ usersError = Null
    /\ formSubmitting = FALSE
    /\ formFilter = "all"
    /\ luFlights = <<>>
    /\ luIssued = 0
    /\ luLatest = [no |-> 0, role |-> "all", state |-> "none"]

\* lines 136-150, 208-211: the page as mounted: the effect has called
\* loadUsers with the filters of the first render
InitLoadOn ==
    /\ roleFilter = "all"
    /\ refreshing = FALSE
    /\ usersError = Null
    /\ formSubmitting = FALSE
    /\ formFilter = "all"
    /\ luFlights = <<[no |-> 1, role |-> "all", by |-> "mount"]>>
    /\ luIssued = 1
    /\ luLatest = [no |-> 1, role |-> "all", state |-> "pending"]

\* lines 175-192: loadUsers up to its await, called by `by` from a render
\* whose roleFilter is role
IssueLoad(role, by) ==
    /\ luIssued < MaxLoads
    /\ usersError' = Null
    /\ usersLoading' = TRUE
    /\ luIssued' = luIssued + 1
    /\ luFlights' = Append(luFlights,
                           [no |-> luIssued + 1, role |-> role, by |-> by])
    /\ luLatest' = [no |-> luIssued + 1, role |-> role, state |-> "pending"]

\* lines 775-808: a role is picked in the filter bar
SetRoleFilter(role) ==
    /\ roleFilter # role
    /\ roleFilter' = role
    /\ UNCHANGED <<users, usersLoading, refreshing, usersError, formSubmitting,
                   formFilter, luFlights, luIssued, luLatest>>
    /\ UNCHANGED bulkModal
    /\ UNCHANGED notLoad

\* lines 213-215, 866: Apply, enabled while not refreshing
HandleApplyFilter ==
    /\ ~refreshing
    /\ refreshing' = TRUE
    /\ IssueLoad(roleFilter, "apply")
    /\ UNCHANGED <<users, roleFilter, formSubmitting, formFilter>>
    /\ UNCHANGED bulkModal
    /\ UNCHANGED notLoad

\* lines 258-291: the form is submitted with a name and a username; the
\* handler closes over the filters of this render
HandleSubmitForm ==
    /\ ~formSubmitting
    /\ formSubmitting' = TRUE
    /\ formFilter' = roleFilter
    /\ UNCHANGED <<users, usersLoading, roleFilter, refreshing, usersError,
                   luFlights, luIssued, luLatest>>
    /\ UNCHANGED bulkModal
    /\ UNCHANGED notLoad

\* lines 293-294: the save succeeded: the form closes and loadUsers is called
SubmitFormOk ==
    /\ formSubmitting
    /\ \A i \in DOMAIN luFlights : luFlights[i].by # "form"
    /\ IssueLoad(formFilter, "form")
    /\ UNCHANGED <<users, roleFilter, refreshing, formSubmitting, formFilter>>
    /\ UNCHANGED bulkModal
    /\ UNCHANGED notLoad

\* lines 295-303: the save failed
SubmitFormFail ==
    /\ formSubmitting
    /\ \A i \in DOMAIN luFlights : luFlights[i].by # "form"
    /\ formSubmitting' = FALSE
    /\ UNCHANGED <<users, usersLoading, roleFilter, refreshing, usersError,
                   formFilter, luFlights, luIssued, luLatest>>
    /\ UNCHANGED bulkModal
    /\ UNCHANGED notLoad

\* lines 204, 216, 301-303: loadUsers of flight i returns to its caller
LoadReturns(i) ==
    /\ usersLoading' = FALSE
    /\ luFlights' = RemoveAt(luFlights, i)
    /\ refreshing' = IF luFlights[i].by = "apply" THEN FALSE ELSE refreshing
    /\ formSubmitting' =
          IF luFlights[i].by = "form" THEN FALSE ELSE formSubmitting
    /\ UNCHANGED <<roleFilter, formFilter, luIssued>>
    /\ UNCHANGED bulkModal
    /\ UNCHANGED notLoad

\* lines 190-196: the request of flight i is answered
LoadAnswerOk(i) ==
    /\ i \in DOMAIN luFlights
    /\ users' = Matching(luFlights[i].role)
    /\ luLatest' = IF luFlights[i].no = luLatest.no
                   THEN [luLatest EXCEPT !.state = "ok"] ELSE luLatest
    /\ UNCHANGED usersError
    /\ LoadReturns(i)

\* lines 197-203: the request of flight i fails
LoadAnswerFail(i) ==
    /\ i \in DOMAIN luFlights
    /\ usersError' = "Gagal memuat data pengguna."
    /\ luLatest' = IF luFlights[i].no = luLatest.no
                   THEN [luLatest EXCEPT !.state = "failed"] ELSE luLatest
    /\ UNCHANGED users
    /\ LoadReturns(i)

\* the pages above, not opened
InitPages ==
    InitToggleOn({[c \in CourseIds |-> "draft"]}) /\ InitQuizOff
        /\ InitLoadOff

(***************************************************************************)
(* Specifications                                                          *)
(***************************************************************************)
\* ---- the status button of TeacherMyCoursesPage ----
InitSpecToggle ==
    InitBulk /\ InitTok /\ InitApi /\ InitAuthOn({"home"})
        /\ InitViewOn({"courses"}) /\ InitCalls
        /\ InitToggleOn([CourseIds -> CourseStatuses]) /\ InitQuizOff
        /\ InitLoadOff

NextToggle ==
    \/ \E id \in CourseIds : HandleToggleStatus(id)
    \/ \E i \in DOMAIN tFlights : ToggleOk(i)
    \/ \E i \in DOMAIN tFlights, m \in ToggleErrors : ToggleFail(i, m)

SpecToggle == InitSpecToggle /\ [][NextToggle]_vars

\* ---- the question editor of TeacherQuizDetailPage ----
InitSpecQuiz ==
    InitBulk /\ InitTok /\ InitApi /\ InitAuthOn({"home"})
        /\ InitViewOn({"courses"}) /\ InitCalls
        /\ InitToggleOn({[c \in CourseIds |-> "draft"]})
        /\ InitQuizOn({"", "7"}) /\ InitLoadOff

NextQuiz ==
    \/ \E raw \in RawQuizzes : LoadQuizOk(raw)
    \/ \E e \in PutFailures : LoadQuizFail(e)
    \/ \E type \in {"multiple_choice", "short_answer"} : HandleAddQuestion(type)
    \/ \E index \in 1..MaxQuestions : HandleRemoveQuestion(index)
    \/ \E index \in DOMAIN questionsDraft :
           \E in \in FieldInputs(questionsDraft[index]) :
               HandleQuestionFieldChange(index, in)
    \/ \E questionIndex \in 1..MaxQuestions, optionIndex \in 0..(MaxOptions - 1) :
           HandleOptionChange(questionIndex, optionIndex)
    \/ \E questionIndex \in 1..MaxQuestions : HandleAddOption(questionIndex)
    \/ \E questionIndex \in 1..MaxQuestions, optionIndex \in 0..(MaxOptions - 1) :
           HandleRemoveOption(questionIndex, optionIndex)
    \/ HandleResetQuestionsDraft
    \/ HandleSaveQuestions
    \/ SavePutOk
    \/ \E e \in PutFailures : SavePutFail(e)

SpecQuiz == InitSpecQuiz /\ [][NextQuiz]_vars

\* ---- the user list of UserManagementPage ----
InitSpecLoad ==
    InitBulk /\ InitTok /\ InitApi /\ InitAuthOn({"home"})
        /\ InitViewOn({"courses"}) /\ InitCalls
        /\ InitToggleOn({[c \in CourseIds |-> "draft"]}) /\ InitQuizOff
        /\ InitLoadOn

NextLoad ==
    \/ \E role \in RoleFilters : SetRoleFilter(role)
    \/ HandleApplyFilter
    \/ HandleSubmitForm
    \/ SubmitFormOk
    \/ SubmitFormFail
    \/ \E i \in 1..MaxLoads : LoadAnswerOk(i)
    \/ \E i \in 1..MaxLoads : LoadAnswerFail(i)

SpecLoad == InitSpecLoad /\ [][NextLoad]_vars

\* ---- the bulk import of UserManagementPage ----
InitSpecBulk ==
    InitBulk /\ InitTok /\ InitApi /\ InitAuthOn({"home"})
        /\ InitViewOn({"courses"}) /\ InitCalls /\ InitPages

NextBulk ==
    \/ \E list \in UserLists : LoadUsersOk(list)
    \/ LoadUsersFail
    \/ \E names \in NameLists : HandleUploadTemplate(names)
    \/ HandleUploadNoFile
    \/ \E now \in Dates : ReaderOnload(now)
    \/ ReaderOnloadFail

SpecBulk == InitSpecBulk /\ [][NextBulk]_vars

\* ---- one apiRequest call against the token store ----
InitSpecApi ==
    InitBulk /\ InitTok /\ InitApi /\ InitAuthOn({"home"})
        /\ InitViewOn({"courses"}) /\ InitCalls /\ InitPages

NextApi ==
    \/ \E t \in TokenStrings : ApiSetToken(t)
    \/ ApiClearToken
    \/ ApiReload
    \/ \E o \in ApiOptions : ApiRequestSend(o)
    \/ \E r \in Responses : ApiRespond(r)
    \/ ApiFetchFail
    \/ ApiForget

SpecApi == InitSpecApi /\ [][NextApi]_vars

\* ---- AuthProvider; a token may have been persisted by an earlier visit ----
InitSpecAuth ==
    /\ InitBulk /\ InitApi /\ InitAuthOn(LoadablePages)
    /\ InitViewOn({"courses"}) /\ InitCalls /\ InitPages
    /\ authToken = Null
    /\ localStore \in {Null} \cup Tokens

NextAuth ==
    \/ InitAuthStart
    \/ \E i \in DOMAIN inflight, me \in AuthUsers : InitAuthOk(i, me)
    \/ \E i \in DOMAIN inflight : InitAuthFail(i)
    \/ Login
    \/ \E i \in DOMAIN inflight, t \in Tokens, u \in AuthUsers :
           LoginOk(i, t, u)
    \/ \E i \in DOMAIN inflight : LoginFail(i)
    \/ Logout
    \/ \E i \in DOMAIN inflight, ok \in BOOLEAN : LogoutSettle(i, ok)
    \/ ChangePasswordSubmit
    \/ \E i \in DOMAIN inflight : ChangePasswordOk(i)
    \/ \E i \in DOMAIN inflight : ChangePasswordFail(i)
    \/ \E i \in DOMAIN inflight, me \in AuthUsers : RefreshOk(i, me)
    \/ \E i \in DOMAIN inflight : RefreshFail(i)
    \/ \E p \in LoadablePages : Reload(p)

SpecAuth == InitSpecAuth /\ [][NextAuth]_vars

\* ---- the bulk modal with Generate, on a few files and user lists ----
BatchFiles ==
    { <<>>,
      <<<<" ", " ">>>>,
      <<<<"U", "d", "i", "n">>>>,
      <<<<"U", "d", "i", "n">>, <<" ", " ">>>>,
      <<<<"U", "d", "i", "n">>, <<" ", "A", "l", "\t">>>> }

BatchUserLists == {{}, {Student(P0307 \o <<"0", "0", "1">>)}}

\* the sequence numbers the rows of these files can get
MaxBatchOrder == 3

InitSpecBatch == InitSpecBulk

NextBatch ==
    \/ \E list \in BatchUserLists : LoadUsersOk(list)
    \/ LoadUsersFail
    \/ \E names \in BatchFiles : HandleUploadTemplate(names)
    \/ HandleUploadNoFile
    \/ \E now \in Dates : ReaderOnload(now)
    \/ ReaderOnloadFail
    \/ \E order \in 1..MaxBatchOrder, e \in RowEdits :
           HandleBulkRowChange(order, e)
    \/ HandleGenerateBulk
    \/ GenPostOk
    \/ \E e \in CreateFailures : GenPostFail(e)

SpecBatch == InitSpecBatch /\ [][NextBatch]_vars

\* ---- the URL apiRequest builds ----
InitSpecUrl == InitSpecApi

NextUrl == \E path \in Paths, q \in Queries : CallBuildUrl(path, q)

SpecUrl == InitSpecUrl /\ [][NextUrl]_vars

\* ---- generateNimAndPassword on its own ----
InitSpecGen == InitSpecBulk

NextGen ==
    \E name \in GenNames, order \in 1..MaxOrder, date \in GenDates :
        CallGenerate(name, order, date)

SpecGen == InitSpecGen /\ [][NextGen]_vars

\* ---- a view with a liveness flag ----
InitSpecView ==
    InitBulk /\ InitTok /\ InitApi /\ InitAuthOn({"home"})
        /\ InitViewOn(ViewPages) /\ InitCalls /\ InitPages

NextView ==
    \/ VMount
    \/ \E dep \in Deps(vPage) : VChangeDep(dep)
    \/ VUnmount
    \/ \E q \in vPending : VResolve(q)
    \/ \E q \in vPending : VReject(q)

SpecView == InitSpecView /\ [][NextView]_vars

(***************************************************************************)
(* Properties of the bulk import (SpecBulk)                                *)
(***************************************************************************)
\* an upload has been read and rows were built from it
Allocated == upDate # NoDate /\ bulkRows # <<>>

\* the NIMs and usernames of the users the upload started from, as stored and
\* trimmed
UsedAtStart ==
    LET vals == {u.nim : u \in upUsers} \cup {u.username : u \in upUsers}
    IN  (vals \cup {Trim(v) : v \in vals \ {NullS}}) \ {NullS}

\* the YYYYMMDD prefix of the upload's date, computed arithmetically
UpPrefix ==
    NumToStr(upDate.year * 10000 + (upDate.month + 1) * 100 + upDate.day)

\* the identifier the prefix and a sequence number give
IdOf(n) == UpPrefix \o PadStart(NumToStr(n), 3, "0")

\* C1: no generated NIM or username equals a NIM or username that was used
\* when the allocation started, and no two generated rows share a NIM or a
\* username.
C1_NoCollision ==
    Allocated =>
        /\ \A i \in DOMAIN bulkRows :
              /\ bulkRows[i].nim \notin UsedAtStart
              /\ bulkRows[i].username \notin UsedAtStart
        /\ \A i, j \in DOMAIN bulkRows :
              i # j => /\ bulkRows[i].nim # bulkRows[j].nim
                       /\ bulkRows[i].username # bulkRows[j].username

\* C1 witness: two rows were generated and the first one had to step over a
\* used NIM or username.
C1_Witness ==
    /\ Allocated
    /\ Len(bulkRows) = 2
    /\ UsedAtStart # {}
    /\ bulkRows[1].order > upStart

\* the non-blank names of the file in input order, trimmed
RECURSIVE NonBlank(_)
NonBlank(names) ==
    IF names = <<>> THEN <<>>
    ELSE IF Trim(Head(names)) = <<>> THEN NonBlank(Tail(names))
         ELSE <<Trim(Head(names))>> \o NonBlank(Tail(names))

\* what row k may not take: the used set at the start and the rows before k
UsedBefore(k) == UsedAtStart \cup {bulkRows[i].nim : i \in 1..(k - 1)}

\* where the search for row k starts
StartOf(k) == IF k = 1 THEN upStart ELSE bulkRows[k - 1].order + 1

\* C2: rows follow the input order of the non-blank names; each row gets the
\* smallest sequence number, from its starting point on, whose identifier is
\* unused; the numbers are strictly increasing; two equal names "Udin" on an
\* empty user list get 1 and 2 with passwords udin001 and udin002.
C2_InputOrderSmallestFree ==
    upDate # NoDate =>
        /\ Len(bulkRows) = Len(NonBlank(upNames))
        /\ \A k \in DOMAIN bulkRows :
              /\ bulkRows[k].name = NonBlank(upNames)[k]
              /\ bulkRows[k].order >= StartOf(k)
              /\ bulkRows[k].nim = IdOf(bulkRows[k].order)
              /\ IdOf(bulkRows[k].order) \notin UsedBefore(k)
              /\ \A n \in StartOf(k)..(bulkRows[k].order - 1) :
                    IdOf(n) \in UsedBefore(k)
              /\ k > 1 => bulkRows[k].order > bulkRows[k - 1].order
        /\ (upUsers = {} /\ upNames = << <<"U", "d", "i", "n">>,
                                         <<"U", "d", "i", "n">> >>)
              => /\ bulkRows[1].order = 1 /\ bulkRows[2].order = 2
                 /\ bulkRows[1].password = <<"u", "d", "i", "n", "0", "0", "1">>
                 /\ bulkRows[2].password = <<"u", "d", "i", "n", "0", "0", "2">>

\* C2 witness: two equal names were allocated and the second row had to step
\* over a used identifier.
C2_Witness ==
    /\ Allocated
    /\ Len(bulkRows) = 2
    /\ bulkRows[1].name = bulkRows[2].name
    /\ bulkRows[2].order > bulkRows[1].order + 1

\* the scenario of C2: two rows named Udin on an empty user list
C2_Scenario ==
    /\ Allocated /\ upUsers = {} /\ Len(bulkRows) = 2
    /\ bulkRows[1].name = <<"U", "d", "i", "n">>
    /\ bulkRows[2].name = <<"U", "d", "i", "n">>

\* the existing identifiers of an upload: the NIMs of the student users,
\* trimmed
StudentIds ==
    {Trim(u.nim) : u \in {x \in upUsers : x.role = "mahasiswa" /\ x.nim # NullS}}

\* those of the upload's date
IdsOfDate == {id \in StudentIds : StartsWith(id, UpPrefix)}

\* the text after the 8 characters of the prefix
SuffixOf(id) == SubSeq(id, 9, Len(id))

IsNumeric(s) == s # <<>> /\ \A i \in DOMAIN s : IsDigit(s[i])

\* the numeric suffixes found among the identifiers of the date
NumericSuffixes ==
    {DigitsValue(SuffixOf(id), 0) : id \in {x \in IdsOfDate : IsNumeric(SuffixOf(x))}}

MaxOf(S) == CHOOSE m \in S : \A x \in S : x <= m

\* C3: the next sequence number is 1 when no existing student identifier
\* starts with the date's YYYYMMDD prefix, and otherwise one more than the
\* largest numeric suffix found after the prefix (1 when none of the suffixes
\* is a number); identifiers of other dates are ignored.
C3_NextAvailableSequence ==
    upDate # NoDate =>
        /\ IdsOfDate = {} => upStart = 1
        /\ upStart = 1 + MaxOf({0} \cup NumericSuffixes)

\* C3 witness: identifiers of the date and of another date exist and the
\* result is one more than the largest suffix of the date.
C3_Witness ==
    /\ upDate # NoDate
    /\ NumericSuffixes # {}
    /\ StudentIds \ IdsOfDate # {}
    /\ upStart = 3

HasSpace(s) == \E i \in DOMAIN s : IsSpace(s[i])

\* the last n characters of s (all of s when it is shorter)
LastN(s, n) == SubSeq(s, IF Len(s) > n THEN Len(s) - n + 1 ELSE 1, Len(s))

\* C4: every generated password has at most 10 characters, holds no
\* whitespace and ends with the row's sequence number zero-padded to 3 digits.
C4_PasswordShape ==
    Allocated =>
        \A k \in DOMAIN bulkRows :
            LET pad == PadStart(NumToStr(bulkRows[k].order), 3, "0")
            IN  /\ Len(bulkRows[k].password) <= 10
                /\ ~HasSpace(bulkRows[k].password)
                /\ LastN(bulkRows[k].password, Len(pad)) = pad

(***************************************************************************)
(* Properties of the token lifecycle (SpecAuth)                            *)
(***************************************************************************)
\* the bearer token a request issued now would find
StoredToken == getAuthToken(authToken, localStore)

\* the handlers that clear the token
ClearingOps == {"LogoutOk", "LogoutFail", "InitAuthFail"}

\* one step of the lifecycle
TokenStep ==
    /\ lastOp'.op = "LoginOk"
          => StoredToken' = lastOp'.tok /\ localStore' = lastOp'.tok
    /\ lastOp'.op \in ClearingOps
          => StoredToken' = Null /\ localStore' = Null
    /\ lastOp'.op \notin ClearingOps \cup {"LoginOk"}
          => StoredToken' = StoredToken /\ localStore' = localStore

\* C5: the stored bearer token is absent when the script starts unless it was
\* persisted before; it becomes the token of the response at every login that
\* succeeds, overwriting what was there; it is cleared by every logout,
\* whether the logout request succeeded or failed, and by a failed identity
\* check of the initialisation; every other step (a failed login, refreshUser
\* and its outcomes, the change-password request, a page load) leaves it
\* unchanged.
C5_TokenLifecycle ==
    /\ [](~started => authToken = Null)
    /\ [][TokenStep]_vars

\* C5 witness: a logout whose request failed has cleared a token that a login
\* of this page had set, while another request is still in flight.
C5_Witness ==
    /\ lastOp.op = "LogoutFail"
    /\ authToken = Null /\ localStore = Null
    /\ inflight # <<>>

\* the flows that write the token
WriterKinds == {"me-init", "login", "logout"}

WritersInFlight ==
    Cardinality({i \in DOMAIN inflight : inflight[i].kind \in WriterKinds})

\* C9: the stored token does not change while a request that read it is
\* still in flight, and at most one token-writing flow (initial identity
\* check, login, logout) is in flight at any time.
C9_TokenReadOnlyDuringRequests ==
    /\ [](WritersInFlight <= 1)
    /\ [][StoredToken' # StoredToken
            => \A i \in DOMAIN inflight' :
                  inflight'[i] \in Range(inflight) => ~inflight'[i].reads]_vars

(***************************************************************************)
(* Properties of apiRequest (SpecApi)                                      *)
(***************************************************************************)
\* a request with withAuth true has been handed to fetch
SentWithAuth == apiPc \in {"sent", "done"} /\ apiOpts.withAuth

\* the token such a request resolves: the override if one is given, else the
\* stored token (the store does not change while the request is out)
ResolvedToken ==
    IF apiOpts.tokenOverride # Null THEN apiOpts.tokenOverride ELSE StoredToken

\* C6 as stated: with withAuth true the request carries Authorization: Bearer
\* <t>, t being the override if given and else the stored token, whatever
\* Authorization header the caller supplied; when no token is found the
\* request is sent without an Authorization header.
C6_AsStated ==
    SentWithAuth =>
        IF Truthy(ResolvedToken)
        THEN apiSent.authorization = "Bearer " \o ResolvedToken
        ELSE apiSent.authorization = NoHeader

\* C6: with withAuth true the request carries Authorization: Bearer <t>, t
\* being the override if given and else the stored token, replacing the
\* caller's Authorization header; when no token is found apiRequest adds no
\* Authorization header and the request is sent with the caller's header as
\* it was given (none if the caller gave none).
C6_AuthorizationHeader ==
    SentWithAuth =>
        IF Truthy(ResolvedToken)
        THEN apiSent.authorization = "Bearer " \o ResolvedToken
        ELSE apiSent.authorization = apiOpts.hAuth

\* C6 witness: a request with withAuth true and a caller-supplied
\* Authorization header was sent while no token was found.
C6_Witness ==
    /\ SentWithAuth
    /\ ~Truthy(ResolvedToken)
    /\ apiOpts.hAuth = "Bearer caller"
    /\ apiSent.authorization = "Bearer caller"

\* a response has been handled
Responded == apiPc = "done" /\ apiResp # NoResponse

\* the body as parsed: the JSON value when the content type names JSON and
\* the text parses, else null
ParsedBody ==
    IF apiResp.contentType \in {"application/json",
                                "application/json; charset=utf-8"}
         /\ apiResp.body.kind # "malformed"
    THEN apiResp.body
    ELSE JsonNull

\* a field of the parsed body that is present: a non-empty string
Present(v) == v # Null /\ v # ""

\* C7: for every response with a status outside 200-299 apiRequest rejects
\* with the status of the response, the parsed body as data and, as message,
\* the body's message field if present, else its error field if present,
\* else "Request failed with status <code>".
C7_ErrorNormalisation ==
    (Responded /\ apiResp.status \notin 200..299) =>
        /\ apiOut.kind = "rejected"
        /\ apiOut.status = apiResp.status
        /\ apiOut.data = ParsedBody
        /\ apiOut.message =
              IF ParsedBody.kind = "object" /\ Present(ParsedBody.message)
              THEN ParsedBody.message
              ELSE IF ParsedBody.kind = "object" /\ Present(ParsedBody.error)
              THEN ParsedBody.error
              ELSE "Request failed with status " \o ToString(apiResp.status)

\* C8: apiRequest resolves, with the parsed body unchanged, exactly when the
\* status of the response is in 200-299; on every other status it rejects.
C8_ResolvesIffSuccess ==
    Responded =>
        /\ apiOut.kind \in {"resolved", "rejected"}
        /\ apiOut.kind = "resolved" <=> apiResp.status \in 200..299
        /\ apiOut.kind = "resolved" => apiOut.data = ParsedBody

\* C8 witness: a response at the upper edge of the success range resolved
\* with its JSON object.
C8_Witness ==
    /\ Responded
    /\ apiResp.status = 299
    /\ apiOut.kind = "resolved"
    /\ apiOut.data.kind = "object"
    /\ apiOut.data.message = "Unauthorized"

(***************************************************************************)
(* Properties of the views with a liveness flag (SpecView)                 *)
(***************************************************************************)
\* the requests answered (resolved or failed) in this step
Delivered == IF vPending' \subseteq vPending THEN vPending \ vPending' ELSE {}

\* a request whose view is gone or whose effect has been run again
Stale(q) == ~vMounted \/ q.run # vRun

\* a stale answer changes nothing of what the view shows
StaleIgnored ==
    \A q \in Delivered :
        Stale(q) => UNCHANGED <<vData, vError, vLoading, vCourse>>

\* data, an error or the end of loading only ever come from the latest run
\* of a view that is still mounted
OnlyLatestWrites ==
    \A s \in AllSlots :
        /\ vData'[s] # vData[s]
              => vMounted /\ vData'[s] = [run |-> vRun, dep |-> vDep]
        /\ (vError'[s] # vError[s] /\ vError'[s] # Null)
              => \E q \in Delivered : ~Stale(q) /\ q.slot = s
        /\ (vLoading[s] /\ ~vLoading'[s])
              => \E q \in Delivered : ~Stale(q) /\ q.slot = s

Called == apiPc \in {"sent", "done"}

\* the call has settled with a failure: fetch raised, or the status is
\* outside 200-299
Failed ==
    apiPc = "done" /\ (apiResp = NoResponse \/ apiResp.status \notin 200..299)

\* C11: each call of apiRequest calls fetch exactly once; after a failure (a
\* transport error or a status outside 200-299) no further request is sent
\* and the promise rejects; a transport error reaches the caller as the error
\* fetch raised.
C11_OneRequestNoRetry ==
    /\ Called => apiFetches = 1
    /\ ~Called => apiFetches = 0
    /\ Failed => apiOut.kind = "rejected"
    /\ (apiPc = "done" /\ apiResp = NoResponse) => apiOut = FetchError

\* C11 witness: a call failed on a transport error after its one request.
C11_Witness ==
    /\ apiPc = "done" /\ apiResp = NoResponse
    /\ apiFetches = 1
    /\ apiOut.message = "Failed to fetch"

\* C13: a GET request is handed to fetch without a body, whatever body the
\* caller supplied (a JSON value or FormData), and it is sent all the same.
C13_GetWithoutBody ==
    (Called /\ apiOpts.method = "GET") =>
        /\ apiSent.body = Null
        /\ apiSent.method = "GET"

\* C13 witness: a GET request whose caller supplied FormData has been sent
\* and answered.
C13_Witness ==
    /\ apiPc = "done" /\ apiOpts.method = "GET" /\ apiOpts.body = "form"
    /\ apiSent.body = Null
    /\ apiOut.kind = "resolved"

\* C14: a FormData body is passed through as it is and apiRequest sets no
\* Content-Type for it (the header is as the caller gave it); any other body
\* that is present is serialised to JSON and Content-Type is the caller's
\* value if the caller supplied one, else application/json.
C14_BodyEncoding ==
    Called =>
        /\ apiOpts.body = "form"
              => /\ apiSent.contentType = apiOpts.hCT
                 /\ apiOpts.method # "GET" => apiSent.body = "form"
        /\ apiOpts.body = "json"
              => /\ apiSent.contentType =
                       IF apiOpts.hCT # NoHeader THEN apiOpts.hCT
                       ELSE "application/json"
                 /\ apiOpts.method # "GET"
                       => apiSent.body = "JSON.stringify(body)"

\* C14 witness: a JSON body was sent with the Content-Type the caller gave.
C14_Witness ==
    /\ Called /\ apiOpts.method = "POST" /\ apiOpts.body = "json"
    /\ apiOpts.hCT = "text/plain"
    /\ apiSent.contentType = "text/plain"

\* the content type of the response names JSON
SaysJson ==
    apiResp.contentType \in {"application/json",
                             "application/json; charset=utf-8"}

\* C15: a response whose content type names JSON and whose body does not
\* parse is handled as a null body, without a parse error: status 200-299
\* resolves with null, any other status rejects with the generic status
\* message and data null; a response whose content type is not JSON has a
\* null body whatever it holds.
C15_MalformedAndNonJson ==
    (Responded /\ (~SaysJson \/ apiResp.body = Malformed)) =>
        /\ apiOut.data = JsonNull
        /\ apiResp.status \in 200..299
              => apiOut.kind = "resolved" /\ apiOut.message = Null
        /\ apiResp.status \notin 200..299
              => /\ apiOut.kind = "rejected"
                 /\ apiOut.message
                       = "Request failed with status "
                             \o ToString(apiResp.status)

\* C15 witness: a status-500 response of type JSON whose body does not parse
\* was rejected with the generic message.
C15_Witness ==
    /\ Responded /\ SaysJson /\ apiResp.body = Malformed
    /\ apiResp.status = 500
    /\ apiOut.kind = "rejected"
    /\ apiOut.message = "Request failed with status 500"

(***************************************************************************)
(* C12: the query string of the URL                                        *)
(***************************************************************************)
RECURSIVE SplitOn(_, _)
\* the pieces of t between the occurrences of c
SplitOn(t, c) ==
    IF ~Includes(t, c) THEN <<t>>
    ELSE LET k == CHOOSE i \in DOMAIN t :
                      t[i] = c /\ \A j \in 1..(i - 1) : t[j] # c
         IN  <<SubSeq(t, 1, k - 1)>> \o SplitOn(SubSeq(t, k + 1, Len(t)), c)

\* what follows the first "?" of a URL
QueryPart(url) ==
    IF ~Includes(url, "?") THEN <<>>
    ELSE LET k == CHOOSE i \in DOMAIN url :
                      url[i] = "?" /\ \A j \in 1..(i - 1) : url[j] # "?"
         IN  SubSeq(url, k + 1, Len(url))

PercentDecoded(h) ==
    CASE h = <<"2", "6">> -> "&"
      [] h = <<"3", "D">> -> "="
      [] h = <<"2", "B">> -> "+"
      [] h = <<"3", "F">> -> "?"
      [] h = <<"2", "5">> -> "%"
      [] OTHER -> "#"

RECURSIVE Decode(_)
\* how a server reads a form-urlencoded piece
Decode(t) ==
    IF t = <<>> THEN <<>>
    ELSE IF Head(t) = "+" THEN <<" ">> \o Decode(Tail(t))
    ELSE IF Head(t) = "%" /\ Len(t) >= 3
         THEN <<PercentDecoded(SubSeq(t, 2, 3))>> \o Decode(SubSeq(t, 4, Len(t)))
    ELSE <<Head(t)>> \o Decode(Tail(t))

\* one parameter of a query string: what precedes its first "=" and what
\* follows it
ParamOf(piece) ==
    LET parts == SplitOn(piece, "=")
    IN  [key |-> Decode(parts[1]),
         hasEq |-> Len(parts) > 1,
         value |-> IF Len(parts) > 1
                   THEN Decode(SubSeq(piece, Len(parts[1]) + 2, Len(piece)))
                   ELSE <<>>]

\* the parameters a URL carries
ParamsOf(url) ==
    LET pieces == SelectSeq(SplitOn(QueryPart(url), "&"), LAMBDA x : x # <<>>)
    IN  [i \in DOMAIN pieces |-> ParamOf(pieces[i])]

\* an entry whose value is not null, not undefined and not the empty string
KeptEntry(e) ==
    /\ e.value.type # "null"
    /\ e.value.type # "undefined"
    /\ ~(e.value.type = "string" /\ Len(e.value.text) = 0)

CountKey(url, key) ==
    Cardinality({j \in DOMAIN ParamsOf(url) : ParamsOf(url)[j].key = key})

\* C12: the URL of a call carries exactly one parameter key=value, with the
\* value as a string, for each entry of the query whose value is not null,
\* not undefined and not the empty string, and no parameter at all for any
\* other entry; when the path has no query string of its own, the URL's
\* parameters are those of the kept entries and nothing else.
C12_QueryString ==
    /\ \A i \in DOMAIN urlIn.query :
            LET e == urlIn.query[i]
            IN  IF KeptEntry(e)
                THEN /\ CountKey(urlOut, e.key) = 1
                     /\ \E j \in DOMAIN ParamsOf(urlOut) :
                            ParamsOf(urlOut)[j] =
                                [key |-> e.key, hasEq |-> TRUE,
                                 value |-> e.value.text]
                ELSE CountKey(urlOut, e.key) = 0
    /\ ~Includes(urlIn.path, "?") =>
            Len(ParamsOf(urlOut)) =
                Cardinality({i \in DOMAIN urlIn.query :
                                KeptEntry(urlIn.query[i])})

\* {search: "", role: "dosen"} gives a query string holding only role=dosen
C12_Witness ==
    /\ urlIn.path = <<"/", "a", "p", "i", "/", "u", "s", "e", "r", "s">>
    /\ urlIn.query =
           <<[key |-> <<"s", "e", "a", "r", "c", "h">>, value |-> QString(<<>>)],
             [key |-> <<"r", "o", "l", "e">>, value |-> QString(<<"d", "o", "s", "e", "n">>)]>>
    /\ urlOut = <<"/", "a", "p", "i", "/", "u", "s", "e", "r", "s", "?", "r", "o", "l", "e", "=", "d", "o", "s", "e", "n">>


(***************************************************************************)
(* C16: what is set is what is read, also after a reload                   *)
(***************************************************************************)
\* C16 as stated: once setAuthToken(t) has been called, getAuthToken returns
\* t, whatever the string t, until the next call of setAuthToken or
\* clearAuthToken, reloads included; after clearAuthToken it returns null.
C16_AsStated ==
    /\ tokLast.op = "set" => getAuthToken(authToken, localStore) = tokLast.tok
    /\ tokLast.op = "clear" => getAuthToken(authToken, localStore) = Null

\* C16: once setAuthToken(t) has been called with a non-empty t, getAuthToken
\* returns t until the next call of setAuthToken or clearAuthToken, whether
\* or not the page has been reloaded in between (module variable reset,
\* storage kept); after setAuthToken("") and after clearAuthToken it returns
\* null in the same way.
C16_TokenRoundTrip ==
    /\ tokLast.op = "set" /\ tokLast.tok # ""
            => getAuthToken(authToken, localStore) = tokLast.tok
    /\ tokLast.op = "set" /\ tokLast.tok = ""
            => getAuthToken(authToken, localStore) = Null
    /\ tokLast.op = "clear" => getAuthToken(authToken, localStore) = Null

\* a token was set and the page reloaded: the module variable is empty and
\* the token comes from the storage
C16_Witness ==
    /\ tokLast = [op |-> "set", tok |-> "tokA"]
    /\ authToken = Null
    /\ localStore = "tokA"
    /\ getAuthToken(authToken, localStore) = "tokA"

\* a token was set, then cleared, and the page reloaded
C16_ClearedThenReloaded ==
    /\ tokLast.op = "clear"
    /\ authToken = Null
    /\ localStore = Null
    /\ apiPc = "sent"


(***************************************************************************)
(* C17: blank names                                                        *)
(***************************************************************************)
\* a name that is empty or holds white space only
Blank(name) == \A i \in DOMAIN name : name[i] \in {" ", "\t"}

\* the names of a file without the blank ones, as they stand in the file
WithoutBlanks(names) == SelectSeq(names, LAMBDA n : ~Blank(n))

\* the sequence numbers the rows took
OrdersTaken == {bulkRows[i].order : i \in DOMAIN bulkRows}

\* C17: a blank or whitespace-only name gives no row, takes no sequence
\* number and marks nothing as used: there are as many rows as non-blank
\* names, no row has an empty name, every number between the starting point
\* and the last row that no row took belongs to an identifier that was used
\* before the upload, and the rows are those the same file gives once its
\* blank names are deleted.
C17_BlankNamesSkipped ==
    upDate # NoDate =>
        /\ Len(bulkRows) = Len(WithoutBlanks(upNames))
        /\ \A i \in DOMAIN bulkRows : bulkRows[i].name # <<>>
        /\ bulkRows # <<>> =>
              \A n \in upStart..bulkRows[Len(bulkRows)].order :
                  n \in OrdersTaken \/ IdOf(n) \in UsedAtStart
        /\ bulkRows = AllocateRows(WithoutBlanks(upNames), upUsers, upDate)

\* a file with a blank name before a name: the one row takes the number the
\* upload started from
C17_Witness ==
    /\ upDate # NoDate
    /\ Len(upNames) = 2
    /\ Blank(upNames[1])
    /\ ~Blank(upNames[2])
    /\ Len(bulkRows) = 1
    /\ bulkRows[1].order = upStart


(***************************************************************************)
(* C18, C19: what generateNimAndPassword returns (SpecGen)                 *)
(***************************************************************************)
Generated == genIn # NoGen

DigitOf(k) ==
    CASE k = 0 -> "0" [] k = 1 -> "1" [] k = 2 -> "2" [] k = 3 -> "3"
      [] k = 4 -> "4" [] k = 5 -> "5" [] k = 6 -> "6" [] k = 7 -> "7"
      [] k = 8 -> "8" [] k = 9 -> "9"

\* n written with exactly 3 digits, for n below 1000
ThreeDigits(n) ==
    <<DigitOf(n \div 100), DigitOf((n \div 10) % 10), DigitOf(n % 10)>>

\* a date written with 4, 2 and 2 digits, the month counted from 1
YYYYMMDD(date) ==
    <<DigitOf(date.year \div 1000), DigitOf((date.year \div 100) % 10),
      DigitOf((date.year \div 10) % 10), DigitOf(date.year % 10),
      DigitOf((date.month + 1) \div 10), DigitOf((date.month + 1) % 10),
      DigitOf(date.day \div 10), DigitOf(date.day % 10)>>

\* C18: for a sequence number from 1 to 999 and any date, the identifier is
\* the 8 digits YYYYMMDD of the date followed by the number written with
\* exactly 3 digits, 11 characters in all, and the username is the identifier.
C18_IdentifierFormat ==
    Generated /\ genIn.order \in 1..999 =>
        /\ Len(genOut.nim) = 11
        /\ SubSeq(genOut.nim, 1, 8) = YYYYMMDD(genIn.date)
        /\ SubSeq(genOut.nim, 9, 11) = ThreeDigits(genIn.order)
        /\ genOut.username = genOut.nim

\* number 999 on 31 December 2024
C18_Witness ==
    /\ genIn.order = 999
    /\ genIn.date = [year |-> 2024, month |-> 11, day |-> 31]
    /\ genOut.nim = <<"2", "0", "2", "4", "1", "2", "3", "1", "9", "9", "9">>
    /\ genOut.username = <<"2", "0", "2", "4", "1", "2", "3", "1", "9", "9", "9">>

\* the letters of the names, upper and lower case side by side
UpperLetters == <<"A", "B", "D", "I", "L", "N", "S", "U">>
LowerLetters == <<"a", "b", "d", "i", "l", "n", "s", "u">>

LowerOf(c) ==
    IF \E i \in DOMAIN UpperLetters : UpperLetters[i] = c
    THEN LowerLetters[CHOOSE i \in DOMAIN UpperLetters : UpperLetters[i] = c]
    ELSE c

\* the name without its white space, in lower case
Cleaned(name) ==
    LET kept == SelectSeq(name, LAMBDA c : c \notin {" ", "\t"})
    IN  [i \in DOMAIN kept |-> LowerOf(kept[i])]

\* n with zeros in front up to 3 digits
ZeroPadded(n) == IF n < 1000 THEN ThreeDigits(n) ELSE NumToStr(n)

\* C19: the password is the name without white space and in lower case, cut
\* to its first 7 characters (all of it, with nothing added, when it has
\* fewer), followed by the sequence number padded with zeros to 3 digits;
\* ("Udin Saputra", 1) gives udinsap001 and ("Al", 7) gives al007.
C19_PasswordFormat ==
    Generated =>
        LET c == Cleaned(genIn.name)
            n == IF Len(c) < 7 THEN Len(c) ELSE 7
        IN  /\ genOut.password = SubSeq(c, 1, n) \o ZeroPadded(genIn.order)
            /\ Len(genOut.password) = n + Len(ZeroPadded(genIn.order))
            /\ genIn.name = <<"U", "d", "i", "n", " ", "S", "a", "p", "u", "t", "r", "a">> /\ genIn.order = 1
                   => genOut.password = <<"u", "d", "i", "n", "s", "a", "p", "0", "0", "1">>
            /\ genIn.name = <<"A", "l">> /\ genIn.order = 7
                   => genOut.password = <<"a", "l", "0", "0", "7">>

\* the short name: ("Al", 7) on 7 March 2025
C19_Witness ==
    /\ genIn.name = <<"A", "l">>
    /\ genIn.order = 7
    /\ genIn.date = [year |-> 2025, month |-> 2, day |-> 7]
    /\ genOut.password = <<"a", "l", "0", "0", "7">>
    /\ genOut.nim = <<"2", "0", "2", "5", "0", "3", "0", "7", "0", "0", "7">>

\* the long name with a blank in it: ("Udin Saputra", 1)
C19_LongName ==
    /\ genIn.name = <<"U", "d", "i", "n", " ", "S", "a", "p", "u", "t", "r", "a">>
    /\ genIn.order = 1
    /\ genOut.password = <<"u", "d", "i", "n", "s", "a", "p", "0", "0", "1">>


(***************************************************************************)
(* C20: an empty batch is never submitted (SpecBatch)                      *)
(***************************************************************************)
\* a file was read and held no name that is not blank
ReadNoName == upDate # NoDate /\ WithoutBlanks(upNames) = <<>>

\* Generate was invoked on an empty preview
GenerateOnEmpty == genCalled /\ genRows = <<>>

\* C20: when the file that was read holds no non-blank name, the preview is
\* empty and an error is shown (the import's own as long as Generate has
\* written none over it); when Generate is invoked on an empty preview
\* it shows its error, nothing is posted and nothing is awaited; and a create
\* request is only ever posted for a row of a non-empty preview.
C20_EmptyBatchNotSubmitted ==
    /\ ReadNoName =>
          /\ bulkRows = <<>>
          /\ bulkError # Null
          /\ ~genCalled /\ genSent = <<>> =>
                bulkError = "Tidak ada nama mahasiswa yang terbaca di file."
    /\ GenerateOnEmpty =>
          /\ bulkError = "Belum ada data mahasiswa untuk digenerate."
          /\ genSent = <<>>
          /\ genPc = "idle"
          /\ ~bulkGenerating
          /\ bulkRows = <<>>
    /\ genPc # "idle" => genRows # <<>>
    /\ genSent # <<>> =>
          /\ genRows # <<>>
          /\ \A i \in DOMAIN genSent :
                \E k \in DOMAIN genRows : genSent[i].nim = genRows[k].nim

\* a file with a whitespace-only name was read, and Generate was invoked on the
\* empty preview it left
C20_Witness ==
    /\ upDate # NoDate
    /\ Len(upNames) = 1
    /\ Blank(upNames[1])
    /\ genCalled
    /\ genRows = <<>>
    /\ bulkError = "Belum ada data mahasiswa untuk digenerate."
    /\ genSent = <<>>

\* a batch of two rows went through
C20_BatchSubmitted ==
    /\ Len(genSent) = 2
    /\ bulkGeneratedRows = genRows
    /\ genPc = "idle"
    /\ ~bulkGenerating


(***************************************************************************)
(* C21: what AdminLayout shows and where it sends (SpecAuth)               *)
(***************************************************************************)
\* the state in which the layout may show its children
AdminMayShow ==
    /\ initialized
    /\ ~loading
    /\ user # NoUser
    /\ user.role = "superadmin"
    /\ ~user.force_password_change

\* where the layout's effect sends for a user, auth being initialized
AdminTarget(u) ==
    CASE u = NoUser -> "login"
      [] u # NoUser /\ u.force_password_change -> "changePassword"
      [] u # NoUser /\ ~u.force_password_change /\ u.role # "superadmin"
            -> "unauthorized"
      [] OTHER -> "superadmin"

\* C21: while the superadmin pages are open the layout shows its children
\* exactly when auth is initialized and not loading and the user is a
\* superadmin who need not change the password, and the placeholder in every
\* other state; and every step that leaves auth initialized with the layout
\* open ends on /login when there is no user, else on /change-password when
\* the password must be changed, else on /unauthorized when the role is not
\* superadmin, else on the superadmin pages.
C21_AdminLayoutGate ==
    /\ [](page = "superadmin" =>
            /\ AdminMayShow
                  <=> AdminLayoutShows(initialized, loading, user) = "children"
            /\ ~AdminMayShow
                  <=> AdminLayoutShows(initialized, loading, user)
                          = "placeholder"
            /\ initialized => user # NoUser /\ ~user.force_password_change
                                  /\ user.role = "superadmin")
    /\ [][page = "superadmin" /\ initialized' => page' = AdminTarget(user')]_vars

\* a lecturer who need not change the password was sent to /unauthorized
C21_Witness ==
    /\ page = "unauthorized"
    /\ initialized
    /\ user.role = "dosen"
    /\ ~user.force_password_change

\* a superadmin who must change the password was sent to /change-password
C21_ForcedChangeFirst ==
    /\ page = "changePassword"
    /\ lastOp.op = "InitAuthOk"
    /\ user.role = "superadmin"
    /\ user.force_password_change

\* the layout is open and shows the placeholder while a logout is under way
C21_PlaceholderWhileLoading ==
    /\ page = "superadmin"
    /\ initialized /\ loading
    /\ AdminLayoutShows(initialized, loading, user) = "placeholder"


(***************************************************************************)
(* C22: the status button of the teacher's course list (SpecToggle)        *)
(***************************************************************************)
\* the handler has just been called for a course whose status was s
ToggledOn(s) == tLast'.op = "toggle" /\ tCourses[tLast'.id] = s

\* the request the step sent, if it sent one
SentNow ==
    IF Len(tFlights') = Len(tFlights) + 1
    THEN {tFlights'[Len(tFlights')]}
    ELSE {}

ToggleStep ==
    /\ ToggledOn("finished") =>
          /\ tFlights' = tFlights
          /\ tCourses' = tCourses
          /\ tError' # Null
    /\ ToggledOn("draft") =>
          SentNow = {[id |-> tLast'.id, status |-> "active"]}
    /\ ToggledOn("active") =>
          SentNow = {[id |-> tLast'.id, status |-> "draft"]}
    /\ tLast'.op = "fail" =>
          /\ tCourses' = tCourses
          /\ tUpdatingId' = 0
    /\ \A c \in CourseIds :
          tCourses[c] = "finished" => tCourses'[c] = "finished"

\* C22: called for a finished course the handler sends nothing, leaves the
\* list as it is and sets an error; called for a draft course it asks for
\* active, for an active course it asks for draft; no request in flight ever
\* asks for finished or concerns a finished course, and no step changes a
\* finished course; a failed request leaves the list as it is and puts
\* updatingId back to null.
C22_StatusToggle ==
    /\ [](\A i \in DOMAIN tFlights :
              /\ tFlights[i].status \in {"draft", "active"}
              /\ tCourses[tFlights[i].id] # "finished")
    /\ [][ToggleStep]_vars

\* the handler was called for a finished course while a request for the other
\* course is in flight
C22_Witness ==
    /\ tLast.op = "toggle"
    /\ tCourses[tLast.id] = "finished"
    /\ tError = "Kelas yang sudah selesai tidak dapat diubah statusnya."
    /\ Len(tFlights) = 1
    /\ tFlights[1].id # tLast.id

\* a request failed: the course keeps its status
C22_FailedRequest ==
    /\ tLast.op = "fail"
    /\ tUpdatingId = 0
    /\ tError = "Forbidden"
    /\ tCourses[tLast.id] = "active"


(***************************************************************************)
(* C23, C24, C27: how logout and login end, and user without token         *)
(***************************************************************************)
\* a logout has just ended
LogoutEnded == lastOp.op \in {"LogoutOk", "LogoutFail"}

\* C23: when logout ends, whether its request succeeded or failed, the stored
\* token is gone from memory and from local storage, AuthProvider's token and
\* user are null and loading is false, and the caller got a promise that
\* resolved, never an error.
C23_LogoutAlwaysClears ==
    LogoutEnded =>
        /\ authToken = Null
        /\ localStore = Null
        /\ getAuthToken(authToken, localStore) = Null
        /\ token = Null
        /\ user = NoUser
        /\ ~loading
        /\ gave = "resolved"

\* a logout whose request failed ended, a token having been stored before
C23_Witness ==
    /\ lastOp.op = "LogoutFail"
    /\ gave = "resolved"
    /\ page = "login"
    /\ token = Null /\ user = NoUser /\ ~loading

\* C24: the step in which a login request is rejected leaves the stored token
\* (memory and local storage) and AuthProvider's token and user as they were,
\* which is also how they were when login was called, sets loading to false
\* and gives the caller an Error.
C24_FailedLoginFrame ==
    [][lastOp'.op = "LoginFail" =>
          /\ authToken' = authToken
          /\ localStore' = localStore
          /\ token' = token
          /\ user' = user
          /\ \E i \in DOMAIN inflight :
                /\ inflight[i].kind = "login"
                /\ token' = inflight[i].cTok
                /\ user' = inflight[i].cUser
          /\ ~loading'
          /\ gave' = "Error"]_vars

\* a login failed while a user was logged in with a stored token
C24_Witness ==
    /\ lastOp.op = "LoginFail"
    /\ gave = "Error"
    /\ user # NoUser
    /\ token # Null
    /\ localStore = token
    /\ ~loading


\* C27: in every reachable state of AuthProvider a user that is not null comes
\* with a token that is not null.
C27_UserImpliesToken == user # NoUser => token # Null

\* the state the race ends in: refreshUser has set a user after a logout
\* cleared the token
C27_UserWithoutToken ==
    /\ lastOp.op = "RefreshOk"
    /\ user # NoUser
    /\ token = Null
    /\ getAuthToken(authToken, localStore) = Null


(***************************************************************************)
(* C25: the create requests of handleGenerateBulk                          *)
(***************************************************************************)
\* the request bodies of the rows of a preview that the loop posts, in
\* preview order
PayloadsOf(rows) ==
    LET s == SelectSeq(rows, Submittable) IN [i \in DOMAIN s |-> Payload(s[i])]

\* the texts bulkError gets from a failed create request
FailureTexts == {FailureText(e) : e \in CreateFailures}

\* a step in which the awaited create request fails
PostFails ==
    /\ genPc = "posting"
    /\ bulkError \notin FailureTexts
    /\ bulkError' \in FailureTexts

\* C25: handleGenerateBulk posts the rows of the preview in preview order,
\* one request per step and the next one only after the answer to the one
\* before (rows whose name, NIM or username is blank are passed over);
\* bulkGenerating is true exactly while the handler runs; at the first
\* failed post nothing more is sent, bulkError is set, bulkGeneratedRows
\* stays empty, the user list is not reloaded and bulkGenerating is false.
C25_SequentialPosts ==
    /\ [] /\ genPc = "posting" =>
                /\ genNext \in 1..Len(genRows)
                /\ genSent = PayloadsOf(SubSeq(genRows, 1, genNext))
                /\ bulkGenerating
                /\ bulkGeneratedRows = <<>>
          /\ genPc = "loading" =>
                /\ bulkGenerating
                /\ genSent = PayloadsOf(genRows)
          /\ genPc = "idle" => ~bulkGenerating
    /\ [][ /\ genSent' # genSent /\ genSent' # <<>> =>
                /\ genPc \in {"idle", "posting"}
                /\ genPc' = "posting"
                /\ Len(genSent') = (IF genPc = "idle" THEN 0 ELSE Len(genSent)) + 1
           /\ PostFails =>
                /\ genSent' = genSent
                /\ genPc' = "idle"
                /\ ~bulkGenerating'
                /\ bulkGeneratedRows' = <<>>
                /\ usersLoading' = usersLoading
                /\ users' = users ]_vars

\* the first of two requests failed: the second row was never posted
C25_Witness ==
    /\ genPc = "idle"
    /\ bulkError \in FailureTexts
    /\ Len(genSent) = 1
    /\ Len(PayloadsOf(genRows)) = 2
    /\ bulkGeneratedRows = <<>>
    /\ ~bulkGenerating
    /\ ~usersLoading

\* the second request is out, the first one having been answered
C25_SecondPosted ==
    /\ genPc = "posting"
    /\ Len(genSent) = 2
    /\ genNext = 2


(***************************************************************************)
(* C28: the rows reported as generated                                     *)
(***************************************************************************)
\* a create request with the data of the row was sent in the last run
WasPosted(row) == \E i \in DOMAIN genSent : genSent[i] = Payload(row)

\* C28: once handleGenerateBulk has completed without error, every row of
\* bulkGeneratedRows, the rows counted as generated and exported with their
\* passwords, is a row whose create request was sent and succeeded, for
\* previews with edited rows too.
C28_GeneratedWereCreated ==
    (genPc \in {"loading", "idle"} /\ bulkGeneratedRows # <<>>) =>
        \A k \in DOMAIN bulkGeneratedRows : WasPosted(bulkGeneratedRows[k])

\* a run has completed without error and reports a row it never posted
C28_ReportedNotCreated ==
    /\ genPc = "idle"
    /\ bulkError = Null
    /\ \E k \in DOMAIN bulkGeneratedRows :
          /\ ~Submittable(bulkGeneratedRows[k])
          /\ ~WasPosted(bulkGeneratedRows[k])


(***************************************************************************)
(* C26: what handleSaveQuestions sends                                     *)
(***************************************************************************)
\* a question has a text that is not blank and more than 0 points and, if it
\* is multiple choice, at least 2 options and a correct_option_index that is
\* the index of one of them
WellFormed(q) ==
    /\ q.text # None
    /\ \E k \in DOMAIN q.text[1] : q.text[1][k] \notin {" ", "\t", "\n"}
    /\ q.points # None
    /\ q.points[1] > 0
    /\ q.type = "multiple_choice" =>
          /\ q.options # None
          /\ Len(q.options[1]) >= 2
          /\ q.correct # None
          /\ q.correct[1] \in 0..(Len(q.options[1]) - 1)

AllWellFormed(draft) == \A i \in DOMAIN draft : WellFormed(draft[i])

\* a step of handleSaveQuestions
SaveStep == qzLast' = "save" /\ quizVars' # quizVars

\* C26: handleSaveQuestions sends the PUT only if every question of the
\* draft has a text that is not blank and points > 0 and every multiple
\* choice question has at least 2 options and a correct_option_index in
\* [0, options.length); otherwise nothing is sent, quiz is unchanged and a
\* message is shown; savingQuestions is true only while the PUT is awaited,
\* so it is false again however the handler ends.
C26_SaveValidation ==
    /\ [] /\ putFlight # None => AllWellFormed(putFlight[1])
          /\ savingQuestions <=> putFlight # None
    /\ [][ /\ SaveStep =>
                IF AllWellFormed(questionsDraft)
                THEN /\ putFlight' = Some(questionsDraft)
                     /\ quiz' = quiz
                ELSE /\ putFlight' = None
                     /\ putFlight = None
                     /\ quiz' = quiz
                     /\ questionMessage' # NoMsg
                     /\ questionMessage'.n \in DOMAIN questionsDraft
                     /\ ~WellFormed(questionsDraft[questionMessage'.n])
                     /\ ~savingQuestions'
           /\ (putFlight # None /\ putFlight' = None) =>
                /\ ~savingQuestions'
                /\ questionMessage' # NoMsg
                /\ quiz' # quiz => quiz'[1].questions = putFlight ]_vars

\* Save was pressed on a draft whose second question has no text: nothing is
\* in flight and the message names question 2
C26_Witness ==
    /\ qzLast = "save"
    /\ Len(questionsDraft) = 2
    /\ WellFormed(questionsDraft[1])
    /\ ~WellFormed(questionsDraft[2])
    /\ putFlight = None
    /\ ~savingQuestions
    /\ questionMessage = Msg("Soal #n belum diisi teksnya.", 2)

\* Save was pressed on a draft that passes: the PUT is in flight
C26_Sent ==
    /\ qzLast = "save"
    /\ putFlight = Some(questionsDraft)
    /\ Len(questionsDraft) = 2
    /\ savingQuestions

\* Save was pressed on a draft whose correct_option_index is past the options
C26_BadIndex ==
    /\ qzLast = "save"
    /\ putFlight = None
    /\ \E i \in DOMAIN questionsDraft :
          /\ questionsDraft[i].correct = Some(Len(OptionsOf(questionsDraft[i])))
          /\ questionMessage =
                Msg("Soal pilihan ganda #n belum memiliki jawaban benar yang valid.", i)


C29_StaleListShown ==
    /\ luFlights = <<>>
    /\ luLatest.state = "ok"
    /\ luLatest.role = "dosen"
    /\ roleFilter = "dosen"
    /\ users = Matching("all")
    /\ ~usersLoading
====
